---- MODULE Spec2Model ----
(***************************************************************************)
(* State-machine model of enterprise/signals/gp_signals.py: the class      *)
(* factories of Gaussian-process signals (BasisGP, the FFT variants, the   *)
(* common-GP variants and WidebandTimingModel).                            *)
(*                                                                         *)
(* One subsystem is exercised per behaviour; the variable "system" says    *)
(* which one.  Every subsystem has its own specification:                  *)
(*   SpecBasis   a BasisGP instance (selection-segmented basis and prior)  *)
(*   SpecFFT     prior construction of FFTBasisGP / FFTBasisCommonGP       *)
(*   SpecWB      construction of a WidebandTimingModel instance            *)
(*   SpecCommon  the instances of one common-GP class                      *)
(*   SpecGP      a BasisGP instance or a common-GP class                   *)
(*   SpecAdd     MarginalizingNmat engines: addition                       *)
(*   SpecNmat    MarginalizingNmat engines: addition, memoized helpers     *)
(*   SpecSolve   one MarginalizingNmat engine: solve, memoized helpers     *)
(*   SpecFactory one call of a class factory                               *)
(***************************************************************************)
EXTENDS Integers, Sequences, FiniteSets, TLC

VARIABLES
    system,        \* which subsystem this behaviour exercises
    \* ---- BasisGP instance (gp_signals.py:34-195)
    cfg,           \* factory arguments and the selection of the pulsar
    keys,          \* self._keys
    labels,        \* self._labels
    basis,         \* self._basis
    phi,           \* self._phi
    slices,        \* self._slices
    basisCache,    \* cache of _construct_basis (limit=1)
    priorCache,    \* cache of _construct_prior
    delayCache,    \* cache of get_delay (coefficient mode)
    coefficients,  \* self._coefficients: the size of every key's GPCoefficients parameter
    ret,           \* the last call and what it returned
    prev,          \* the call before it: operation, basis and prior parameter values
    \* ---- FFT prior construction (gp_signals.py:270-309, 602-677)
    fft,           \* factory arguments and the knots of the instances
    gpCall,        \* last PSD-to-covariance call of the FFTBasisGP instance
    cmCall,        \* last PSD-to-covariance call of the FFTBasisCommonGP instance
    gpPhi,         \* self._phi of the FFTBasisGP instance
    fftCache,      \* caches of the two _construct_prior methods
    fftRet,        \* the last get_phi call and what it returned
    \* ---- WidebandTimingModel construction (gp_signals.py:767-851)
    wb,            \* the pulsar and the factory arguments
    wbObj,         \* the constructed instance, or the error raised
    wbRet,         \* the last get_dm call on the instance and its result
    \* ---- one common-GP class (gp_signals.py:378-677)
    ccfg,          \* factory arguments of the class
    Tmin,          \* class attribute _Tmin
    Tmax,          \* class attribute _Tmax
    inst,          \* the instances constructed so far, by series
    cret,          \* the last call on the class and what it returned
    late,          \* an instance was constructed after a basis was built
    constructed,   \* the series of the constructions so far, in order
    \* ---- MarginalizingNmat engines (gp_signals.py:1037-1101)
    engines,       \* the engines created so far, in order of creation
    nret,          \* the last call on an engine and its outcome
    \* ---- one call of a class factory (gp_signals.py:231-268, 515-538, 565-600)
    fcall,         \* the factory and its arguments
    fout           \* what the call returned or raised

basisVars  == <<cfg, keys, labels, basis, phi, slices, basisCache, priorCache, delayCache,
               coefficients, ret, prev>>
fftVars    == <<fft, gpCall, cmCall, gpPhi, fftCache, fftRet>>
wbVars     == <<wb, wbObj, wbRet>>
commonVars == <<ccfg, Tmin, Tmax, inst, cret, late, constructed>>
nmatVars   == <<engines, nret>>
factoryVars == <<fcall, fout>>
vars       == <<system, basisVars, fftVars, wbVars, commonVars, nmatVars, factoryVars>>

----------------------------------------------------------------------------
(* Bounds of the model *)

NObs   == 2     \* observations of the pulsar
MaxKey == 2     \* selection keys are 1..MaxKey
MaxBP  == 1     \* basis-parameter values are 0..MaxBP
MaxPP  == 1     \* prior-parameter values are 0..MaxPP
MaxCoef == 0    \* sampled coefficient values are 0..MaxCoef

Keys    == 1..MaxKey
BPVals  == 0..MaxBP
PPVals  == 0..MaxPP
Rows    == 1..NObs

\* params dictionaries handed to the get_* methods: the value of the basis
\* parameter, of the prior parameter and (coefficient mode) of the
\* coefficient parameters; coef = Absent: no coefficient name is in params;
\* coef = FirstOnly: only the first key's coefficient name is, with value 0;
\* coef >= 0: every key's coefficient name is, with that value
Absent    == -1
FirstOnly == -2
ParamsSet == [bp : BPVals, pp : PPVals, coef : {FirstOnly, Absent} \cup (0..MaxCoef)]

None    == [kind |-> "none"]
NoCall  == [op |-> "none", params |-> [bp |-> 0, pp |-> 0, coef |-> -1], value |-> None]

----------------------------------------------------------------------------
(* Helpers *)

RECURSIVE SumSeq(_)
SumSeq(s) == IF s = <<>> THEN 0 ELSE Head(s) + SumSeq(Tail(s))

Min(S) == CHOOSE x \in S : \A y \in S : x <= y
Max(S) == CHOOSE x \in S : \A y \in S : x >= y

\* sorted(): the elements of a set of integers in increasing order
RECURSIVE Sorted(_)
Sorted(S) == IF S = {} THEN <<>> ELSE <<Min(S)>> \o Sorted(S \ {Min(S)})

Range(s) == {s[i] : i \in DOMAIN s}

----------------------------------------------------------------------------
(* signal_base.cache_call: memoization keyed by the values of the declared *)
(* parameters.  A cache holds its entries (key and cached result) and, if  *)
(* it is bounded, the order in which the keys came; limit = 0 stands for   *)
(* "no bound".                                                             *)

NoLimit == 0

EmptyCache == [map |-> {}, order |-> <<>>]

CacheHit(cache, key) == \E e \in cache.map : e.key = key

CacheGet(cache, key) == (CHOOSE e \in cache.map : e.key = key).val

\* store a result; a bounded cache forgets its oldest key when it is full
CachePut(cache, key, val, limit) ==
    LET entry == [key |-> key, val |-> val]
    IN  IF limit = NoLimit
        THEN [map |-> cache.map \cup {entry}, order |-> <<>>]
        ELSE LET ord == Append(cache.order, key)
             IN  IF Len(ord) > limit
                 THEN [map   |-> {e \in cache.map : e.key # Head(ord)} \cup {entry},
                       order |-> Tail(ord)]
                 ELSE [map |-> cache.map \cup {entry}, order |-> ord]

----------------------------------------------------------------------------
(* The generators handed to the BasisGP factory.  They are collaborators   *)
(* (functions of utils): what matters is that the basis generator's width,  *)
(* and labels depend on the key and the basis parameter, and that the prior *)
(* generator's values depend on the key, the label and the prior parameter.*)

DefaultBP == 0      \* value a basis parameter takes when params = {}

\* number of columns the basis generator of key k returns: the basis of
\* key 1 keeps its size, the others grow with the basis parameter
BasisWidth(k, bp) == IF k = 1 THEN 1 ELSE k + bp

\* labels (e.g. frequencies) returned with the basis of key k
BasisLabels(k, bp) == [j \in 1..BasisWidth(k, bp) |-> 10 * (bp + 1) + j]

\* entry of the basis of key k at observation r, local column j
BasisEntry(k, bp, r, j) == 100 * k + 10 * (bp + 1) + r + j

\* 1-D prior slice returned by the prior generator of key k
PriorFn(k, labs, pp) == [j \in DOMAIN labs |-> 1000 * k + 100 * (pp + 1) + labs[j]]

\* KernelMatrix(nc): an empty (all-zero) diagonal prior of dimension nc
KernelMatrix(nc) == [j \in 1..nc |-> 0]

\* KernelMatrix.set(value, slc): write a 1-D slice; slc is half-open, 0-based
KernelSet(K, value, slc) ==
    [j \in DOMAIN K |-> IF slc.start < j /\ j <= slc.stop /\ (j - slc.start) \in DOMAIN value
                        THEN value[j - slc.start] ELSE K[j]]

\* KernelMatrix.inv() of a diagonal prior: the element-wise reciprocal,
\* kept as the pair <<1, x>>
KernelInv(K) == [j \in DOMAIN K |-> <<1, K[j]>>]

----------------------------------------------------------------------------
(* BasisGP._do_selection and BasisGP._construct_basis *)

\* sel.masks: the selection groups the observations by key
MaskOf(sel, k) == [r \in Rows |-> sel[r] = k]

\* the loop of _construct_basis that assigns the column slices
RECURSIVE SliceLoopNoAdvance(_, _, _, _, _)
SliceLoopNoAdvance(ks, i, bp, nctot, acc) ==
    IF i > Len(ks) THEN acc
    ELSE LET nn == BasisWidth(ks[i], bp)
         IN  SliceLoopNoAdvance(ks, i + 1, bp, nctot,
                 [k \in (DOMAIN acc) \cup {ks[i]} |->
                     IF k = ks[i] THEN [start |-> nctot, stop |-> nn + nctot] ELSE acc[k]])

RECURSIVE SliceLoop(_, _, _, _, _)
SliceLoop(ks, i, bp, nctot, acc) ==
    IF i > Len(ks) THEN acc
    ELSE LET nn == BasisWidth(ks[i], bp)
         IN  SliceLoop(ks, i + 1, bp, nctot + nn,
                 [k \in (DOMAIN acc) \cup {ks[i]} |->
                     IF k = ks[i] THEN [start |-> nctot, stop |-> nn + nctot] ELSE acc[k]])

EmptyMap == [k \in {} |-> 0]

\* the body of _construct_basis: labels, combined basis, reset prior, slices
ConstructBasis(ks, sel, bp) ==
    LET nc  == SumSeq([i \in DOMAIN ks |-> BasisWidth(ks[i], bp)])
        slc == SliceLoop(ks, 1, bp, 0, EmptyMap)
        owner(c) == {k \in DOMAIN slc : slc[k].start < c /\ c <= slc[k].stop}
    IN  [labels |-> [k \in Range(ks) |-> BasisLabels(k, bp)],
         basis  |-> [r \in Rows |-> [c \in 1..nc |->
                        IF \E k \in owner(c) : MaskOf(sel, k)[r]
                        THEN LET k == Max({q \in owner(c) : MaskOf(sel, q)[r]})
                             IN  BasisEntry(k, bp, r, c - slc[k].start)
                        ELSE 0]],
         phi    |-> KernelMatrix(nc),
         slices |-> slc]

\* the body of _construct_prior: write every key's prior slice into _phi
RECURSIVE PriorLoop(_, _, _, _, _)
PriorLoop(ks, i, labs, slc, st) ==
    IF i > Len(ks) THEN st.phi
    ELSE PriorLoop(ks, i + 1, labs, slc,
             [st EXCEPT !.phi = KernelSet(st.phi, PriorFn(ks[i], labs[ks[i]], st.pp), slc[ks[i]])])

ConstructPrior(ks, labs, slc, K, pp) == PriorLoop(ks, 1, labs, slc, [phi |-> K, pp |-> pp])

----------------------------------------------------------------------------
(* The BasisGP instance: __init__ and the published operations *)

\* the attributes the cached constructions read and write
Self == [labels |-> labels, basis |-> basis, phi |-> phi, slices |-> slices,
         basisCache |-> basisCache, priorCache |-> priorCache]

Unbuilt == [labels |-> EmptyMap, basis |-> [r \in Rows |-> <<>>], phi |-> <<>>,
            slices |-> EmptyMap, basisCache |-> EmptyCache, priorCache |-> EmptyCache]

\* _construct_basis under a cache that keeps the last two parameter sets
CachedConstructBasisKeepsTwo(S, ks, sel, key) ==
    IF CacheHit(S.basisCache, key) THEN S
    ELSE LET b == ConstructBasis(ks, sel, IF key = <<>> THEN DefaultBP ELSE key[1])
         IN  [S EXCEPT !.labels = b.labels, !.basis = b.basis, !.phi = b.phi,
                       !.slices = b.slices,
                       !.basisCache = CachePut(S.basisCache, key, 0, 2)]

\* _construct_basis under its cache, without the reset of _phi
CachedConstructBasisKeepsPhi(S, ks, sel, key) ==
    IF CacheHit(S.basisCache, key) THEN S
    ELSE LET b == ConstructBasis(ks, sel, IF key = <<>> THEN DefaultBP ELSE key[1])
         IN  [S EXCEPT !.labels = b.labels, !.basis = b.basis,
                       !.slices = b.slices,
                       !.basisCache = CachePut(S.basisCache, key, 0, 1)]

\* @cache_call("basis_params", limit=1) around _construct_basis;
\* key is <<>> for params = {} and <<bp>> otherwise
CachedConstructBasis(S, ks, sel, key) ==
    IF CacheHit(S.basisCache, key) THEN S
    ELSE LET b == ConstructBasis(ks, sel, IF key = <<>> THEN DefaultBP ELSE key[1])
         IN  [S EXCEPT !.labels = b.labels, !.basis = b.basis, !.phi = b.phi,
                       !.slices = b.slices,
                       !.basisCache = CachePut(S.basisCache, key, 0, 1)]

\* @cache_call("prior_params") around _construct_prior
CachedConstructPrior(S, ks, pp) ==
    IF CacheHit(S.priorCache, <<pp>>) THEN S
    ELSE [S EXCEPT !.phi = ConstructPrior(ks, S.labels, S.slices, S.phi, pp),
                   !.priorCache = CachePut(S.priorCache, <<pp>>, 0, NoLimit)]

\* get_phi of the marginalized class
GetPhiState(S, ks, sel, p) == CachedConstructPrior(CachedConstructBasis(S, ks, sel, <<p.bp>>), ks, p.pp)

Store(S) ==
    /\ labels' = S.labels
    /\ basis' = S.basis
    /\ phi' = S.phi
    /\ slices' = S.slices
    /\ basisCache' = S.basisCache
    /\ priorCache' = S.priorCache

Returned(op, p, v) ==
    /\ ret' = [op |-> op, params |-> p, value |-> v]
    /\ prev' = IF ret.op = "none" THEN None
               ELSE [kind |-> "call", op |-> ret.op, bp |-> ret.params.bp, pp |-> ret.params.pp]

OthersOfBasis == UNCHANGED <<system, fftVars, wbVars, commonVars, nmatVars, factoryVars>>

InitOthersOfBasis ==
    /\ fft = None /\ gpCall = None /\ cmCall = None /\ gpPhi = None
    /\ fftCache = None /\ fftRet = None
    /\ wb = None /\ wbObj = None /\ wbRet = None
    /\ ccfg = None /\ Tmin = <<>> /\ Tmax = <<>> /\ inst = EmptyMap
    /\ cret = None /\ late = FALSE /\ constructed = <<>>
    /\ engines = <<>> /\ nret = None
    /\ fcall = None /\ fout = None

\* BasisGP.__init__: _do_selection, which in coefficient mode constructs
\* the basis with default arguments to size the coefficient parameters
InitBasis ==
    /\ system = "BasisGP"
    /\ cfg \in [coefficients : BOOLEAN, sel : [Rows -> Keys]]
    /\ keys = Sorted({cfg.sel[r] : r \in Rows})
    /\ LET S == IF cfg.coefficients
                THEN CachedConstructBasis(Unbuilt, keys, cfg.sel, <<>>)
                ELSE Unbuilt
       IN  /\ labels = S.labels /\ basis = S.basis /\ phi = S.phi
           /\ slices = S.slices /\ basisCache = S.basisCache
           /\ priorCache = S.priorCache
    /\ delayCache = EmptyCache
    /\ coefficients = IF cfg.coefficients
                      THEN [k \in Range(keys) |-> slices[k].stop - slices[k].start]
                      ELSE EmptyMap
    /\ ret = NoCall
    /\ prev = None
    /\ InitOthersOfBasis

Marginal == [bp : BPVals, pp : PPVals, coef : {-1}]

get_basis(p) ==
    /\ system = "BasisGP"
    /\ IF cfg.coefficients
       THEN /\ Returned("get_basis", p, None)
            /\ UNCHANGED <<labels, basis, phi, slices, basisCache, priorCache>>
       ELSE LET S == CachedConstructBasis(Self, keys, cfg.sel, <<p.bp>>)
            IN  /\ Store(S)
                /\ Returned("get_basis", p, [kind |-> "matrix", data |-> S.basis])
    /\ UNCHANGED <<cfg, keys, delayCache, coefficients>>
    /\ OthersOfBasis

\* what get_phi returns: None in coefficient mode (lines 168-169), the
\* prior self._phi otherwise (line 192)
PhiReturnedAlways(coeffs, S) == [kind |-> "kernel", data |-> S.phi]

PhiReturned(coeffs, S) ==
    IF coeffs THEN None ELSE [kind |-> "kernel", data |-> S.phi]

get_phi(p) ==
    /\ system = "BasisGP"
    /\ LET S == IF cfg.coefficients THEN Self ELSE GetPhiState(Self, keys, cfg.sel, p)
       IN  /\ Store(S)
           /\ Returned("get_phi", p, PhiReturned(cfg.coefficients, S))
    /\ UNCHANGED <<cfg, keys, delayCache, coefficients>>
    /\ OthersOfBasis

get_phiinv(p) ==
    /\ system = "BasisGP"
    /\ IF cfg.coefficients
       THEN /\ Returned("get_phiinv", p, None)
            /\ UNCHANGED <<labels, basis, phi, slices, basisCache, priorCache>>
       ELSE LET S == GetPhiState(Self, keys, cfg.sel, p)
            IN  /\ Store(S)
                /\ Returned("get_phiinv", p, [kind |-> "kernel", data |-> KernelInv(S.phi)])
    /\ UNCHANGED <<cfg, keys, delayCache, coefficients>>
    /\ OthersOfBasis

\* delay_params: the coefficient parameters in coefficient mode, none otherwise
delay_params == IF cfg.coefficients THEN {<<k, "coefficients">> : k \in Range(keys)} ELSE {}

\* the GPCoefficients parameter of key k has the size given at construction
\* (line 80): its point value p.value and a value sampled for it
PointValue(size) == [j \in 1..size |-> 1 + j]
SampledValue(size, v) == [j \in 1..size |-> 2 + v + j]

\* p.name in params (line 161)
Present(ks, k, coef) == coef >= 0 \/ (coef = FirstOnly /\ k = ks[1])

\* params[p.name] if p.name in params else p.value (line 161)
CoefValue(ks, sizes, k, coef) ==
    IF Present(ks, k, coef)
    THEN SampledValue(sizes[k], IF coef = FirstOnly THEN 0 ELSE coef)
    ELSE PointValue(sizes[k])

\* c[slc] = value: numpy assigns an array of the slice's length or of length 1
CanAssign(value, slc) == Len(value) = slc.stop - slc.start \/ Len(value) = 1

AssignSlice(c, value, slc) ==
    [j \in DOMAIN c |-> IF slc.start < j /\ j <= slc.stop
                        THEN (IF Len(value) = 1 THEN value[1] ELSE value[j - slc.start])
                        ELSE c[j]]

\* a loop that takes every coefficient vector from the parameter's own value
RECURSIVE CoefLoopPointOnly(_, _, _, _, _, _)
CoefLoopPointOnly(ks, i, slc, sizes, coef, c) ==
    IF i > Len(ks) THEN c
    ELSE CoefLoopPointOnly(ks, i + 1, slc, sizes, coef,
                           AssignSlice(c, PointValue(sizes[ks[i]]), slc[ks[i]]))

\* the loop of get_delay (lines 159-161)
RECURSIVE CoefLoop(_, _, _, _, _, _)
CoefLoop(ks, i, slc, sizes, coef, c) ==
    IF i > Len(ks) THEN c
    ELSE CoefLoop(ks, i + 1, slc, sizes, coef,
                  AssignSlice(c, CoefValue(ks, sizes, ks[i], coef), slc[ks[i]]))

\* the cache key of get_delay: the values of the basis parameter and of the
\* coefficient parameters that are in params
RECURSIVE PresentValues(_, _, _)
PresentValues(ks, i, coef) ==
    IF i > Len(ks) THEN <<>>
    ELSE (IF Present(ks, ks[i], coef) THEN <<IF coef = FirstOnly THEN 0 ELSE coef>> ELSE <<>>)
         \o PresentValues(ks, i + 1, coef)

DelayKey(ks, p) == <<p.bp>> \o PresentValues(ks, 1, p.coef)

\* np.dot(self._basis, c)
Dot(B, c) == [r \in DOMAIN B |-> SumSeq([j \in DOMAIN c |-> B[r][j] * c[j]])]

get_delay(p) ==
    /\ system = "BasisGP"
    /\ IF ~cfg.coefficients
       THEN /\ Returned("get_delay", p, [kind |-> "int", data |-> 0])
            /\ UNCHANGED <<labels, basis, phi, slices, basisCache, priorCache, delayCache>>
       ELSE LET key == DelayKey(keys, p)
            IN  IF CacheHit(delayCache, key)
                THEN /\ Returned("get_delay", p, CacheGet(delayCache, key))
                     /\ UNCHANGED <<labels, basis, phi, slices, basisCache, priorCache, delayCache>>
                ELSE LET S == CachedConstructBasis(Self, keys, cfg.sel, <<p.bp>>)
                         ok == \A k \in Range(keys) :
                                  CanAssign(CoefValue(keys, coefficients, k, p.coef), S.slices[k])
                         c == CoefLoop(keys, 1, S.slices, coefficients, p.coef,
                                       [j \in 1..Len(S.basis[1]) |-> 0])
                         v == [kind |-> "vector", data |-> Dot(S.basis, c)]
                     IN  /\ Store(S)
                         /\ IF ok
                            THEN /\ Returned("get_delay", p, v)
                                 /\ delayCache' = CachePut(delayCache, key, v, NoLimit)
                            ELSE /\ Returned("get_delay", p, [kind |-> "ValueError"])
                                 /\ UNCHANGED delayCache
    /\ UNCHANGED <<cfg, keys, coefficients>>
    /\ OthersOfBasis

NextBasis ==
    \/ \E p \in Marginal : get_basis(p)
    \/ \E p \in Marginal : get_phi(p)
    \/ \E p \in Marginal : get_phiinv(p)
    \/ \E p \in ParamsSet : get_delay(p)

SpecBasis == InitBasis /\ [][NextBasis]_vars

----------------------------------------------------------------------------
(* Properties of the BasisGP instance *)

\* the basis has been constructed, and with which basis-parameter value
Built == basisCache.map # {}
BuiltBP == LET key == basisCache.order[1] IN IF key = <<>> THEN DefaultBP ELSE key[1]

\* uncached reference: rebuild basis and prior from params on every call
RefBasis(p) == ConstructBasis(keys, cfg.sel, p.bp).basis
RefPhi(p) ==
    LET b == ConstructBasis(keys, cfg.sel, p.bp)
    IN  ConstructPrior(keys, b.labels, b.slices, b.phi, p.pp)

\* C1: after every basis construction the recorded column slices are
\* contiguous half-open ranges in sorted-key order that partition
\* [0, total columns): the first starts at 0, each next one starts where the
\* previous one stops, the last stops at the column count of the combined
\* basis, and each key's slice is as wide as that key's basis sub-block,
\* whose entries it holds on the rows of the key's mask.
C1_SlicesPartition ==
    (system = "BasisGP" /\ Built) =>
        /\ DOMAIN slices = Range(keys)
        /\ \A i \in 1..(Len(keys) - 1) : keys[i] < keys[i + 1]
        /\ slices[keys[1]].start = 0
        /\ \A i \in 1..(Len(keys) - 1) : slices[keys[i + 1]].start = slices[keys[i]].stop
        /\ \A r \in Rows : slices[keys[Len(keys)]].stop = Len(basis[r])
        /\ slices[keys[Len(keys)]].stop = Len(phi)
        /\ \A k \in Range(keys) :
              /\ slices[k].stop - slices[k].start = BasisWidth(k, BuiltBP)
              /\ slices[k].stop - slices[k].start = Len(labels[k])
              /\ \A r \in Rows : \A j \in 1..BasisWidth(k, BuiltBP) :
                    cfg.sel[r] = k => basis[r][slices[k].start + j] = BasisEntry(k, BuiltBP, r, j)

\* C1 witness: a basis of two keys with different widths, rebuilt for a
\* non-default basis-parameter value
C1_Witness ==
    /\ system = "BasisGP" /\ Built /\ Len(keys) = 2 /\ BuiltBP = 1
    /\ slices[keys[1]].stop - slices[keys[1]].start # slices[keys[2]].stop - slices[keys[2]].start
    /\ slices[keys[2]].start > 0

\* C2: a marginalized get_phi whose basis-parameter values differ from those
\* of the preceding get_phi call, while the prior-parameter values are the
\* same, returns the prior that holds at every key's new slice that key's
\* prior generator evaluated on the new labels.
C2_PriorFollowsBasisChange ==
    (/\ system = "BasisGP" /\ ~cfg.coefficients
     /\ ret.op = "get_phi" /\ prev # None /\ prev.op = "get_phi"
     /\ prev.bp # ret.params.bp /\ prev.pp = ret.params.pp)
    => ret.value.data = RefPhi(ret.params)

\* C3: marginalized get_basis and get_phi return what an uncached reference
\* that rebuilds basis and prior from params returns, whatever calls came
\* before.
C3_SameAsUncachedReference ==
    (system = "BasisGP" /\ ~cfg.coefficients) =>
        /\ ret.op = "get_basis" => ret.value.data = RefBasis(ret.params)
        /\ ret.op = "get_phi" => ret.value.data = RefPhi(ret.params)

\* the coefficient vector the claim describes: at every key's slice the
\* value of that key's coefficient parameter
RefCoef(p) ==
    LET slc == ConstructBasis(keys, cfg.sel, p.bp).slices
        nc  == SumSeq([i \in DOMAIN keys |-> BasisWidth(keys[i], p.bp)])
    IN  [j \in 1..nc |->
            LET k == CHOOSE q \in Range(keys) : slc[q].start < j /\ j <= slc[q].stop
            IN  CoefValue(keys, coefficients, k, p.coef)[j - slc[k].start]]

\* every key's slice for these params is as wide as its coefficient parameter
SameSize(p) == \A k \in Range(keys) : BasisWidth(k, p.bp) = coefficients[k]

\* C11 (as stated): in coefficient mode every get_delay(params) returns
\* basis times c, where c holds at every key's slice the sampled value of
\* the key's coefficient parameter when its name is in params and the point
\* value otherwise, and every coefficient parameter has the size of its
\* key's slice at construction.
C11_DelayIsBasisTimesCoefficients ==
    (system = "BasisGP" /\ cfg.coefficients) =>
        /\ \A k \in Range(keys) : coefficients[k] = BasisWidth(k, DefaultBP)
        /\ ret.op = "get_delay" =>
              /\ ret.value.kind = "vector"
              /\ ret.value.data = Dot(RefBasis(ret.params), RefCoef(ret.params))

\* C11 (amended): the same, for the params under which every key's slice
\* keeps the width it had at construction; the slices then cover every
\* entry of c.
C11_DelayIsBasisTimesCoefficientsOnSameSize ==
    (system = "BasisGP" /\ cfg.coefficients) =>
        /\ \A k \in Range(keys) : coefficients[k] = BasisWidth(k, DefaultBP)
        /\ ret.op = "none" =>
              \A k \in Range(keys) : coefficients[k] = slices[k].stop - slices[k].start
        /\ (ret.op = "get_delay" /\ SameSize(ret.params)) =>
              /\ ret.value.kind = "vector"
              /\ ret.value.data = Dot(RefBasis(ret.params), RefCoef(ret.params))
              /\ Len(RefCoef(ret.params)) = SumSeq([i \in DOMAIN keys |-> coefficients[keys[i]]])

\* C11 witness: a delay of two keys where only the first key's coefficient
\* name is in params, returned after a call with another basis-parameter
\* value had rebuilt the basis
C11_Witness ==
    /\ system = "BasisGP" /\ cfg.coefficients /\ Len(keys) = 2
    /\ ret.op = "get_delay" /\ ret.params.coef = FirstOnly /\ ret.value.kind = "vector"
    /\ prev # None /\ prev.op = "get_delay" /\ prev.bp # ret.params.bp

\* the operations of the marginalized class that construct the basis
BasisOps == {"get_basis", "get_phi", "get_phiinv"}

\* the instance's basis matrix, labels and slices are those the generators
\* return for the basis-parameter value bp
DerivedFrom(bp) ==
    LET b == ConstructBasis(keys, cfg.sel, bp)
    IN  labels = b.labels /\ basis = b.basis /\ slices = b.slices

\* the step ran the body of _construct_basis: the cache took a new entry
Invoked == basisCache' # basisCache

\* C18: the basis cache keeps the most recent parameter set only: a
\* get_basis/get_phi/get_phiinv call of a marginalized instance invokes the
\* basis generators exactly when its basis-parameter values differ from
\* those of the preceding construction (or nothing was constructed yet),
\* so A, B, A rebuilds three times and A, A once; after every such call
\* basis matrix, labels and slices derive from the call's values, and the
\* cache holds that one parameter set.
C18_BasisCacheKeepsMostRecent ==
    /\ []((system = "BasisGP" /\ ~cfg.coefficients /\ ret.op \in BasisOps) =>
            /\ DerivedFrom(ret.params.bp)
            /\ basisCache.order = <<(<<ret.params.bp>>)>>)
    /\ []((system = "BasisGP" /\ ~cfg.coefficients /\ Built) => DerivedFrom(BuiltBP))
    /\ [][(system = "BasisGP" /\ ~cfg.coefficients /\ ret'.op \in BasisOps) =>
            /\ Invoked <=> ~(Built /\ DerivedFrom(ret'.params.bp))
            /\ ~Invoked => (basis' = basis /\ labels' = labels /\ slices' = slices)]_vars

\* C18 witness: a marginalized instance with a basis whose width depends on
\* the basis parameter was asked for the basis of A = 0 right after a call
\* with B = 1, and holds the basis, labels and slices of A again
C18_Witness ==
    /\ system = "BasisGP" /\ ~cfg.coefficients /\ 2 \in Range(keys)
    /\ ret.op = "get_basis" /\ ret.params.bp = 0
    /\ prev # None /\ prev.op \in BasisOps /\ prev.bp = 1
    /\ DerivedFrom(0) /\ ~DerivedFrom(1)
    /\ ret.value.data = basis

\* number of columns of the basis get_basis returns for the value bp
ColumnCount(bp) == Len(ConstructBasis(keys, cfg.sel, bp).basis[1])

\* C19: the prior get_phi returns for a marginalized instance has the
\* dimension of the basis get_basis returns for the same params: its column
\* count, also when the total width changed between calls.
C19_PhiDimensionIsColumnCount ==
    (system = "BasisGP" /\ ~cfg.coefficients /\ ret.op = "get_phi") =>
        /\ ret.value.kind = "kernel"
        /\ Len(ret.value.data) = ColumnCount(ret.params.bp)
        /\ Len(ret.value.data) = Len(basis[1])
        /\ Len(phi) = Len(basis[1])

\* C19 witness: get_phi after a get_phi with another basis-parameter value
\* that gave the basis a different total width
C19_Witness ==
    /\ system = "BasisGP" /\ ~cfg.coefficients
    /\ ret.op = "get_phi" /\ prev # None /\ prev.op = "get_phi"
    /\ ColumnCount(prev.bp) # ColumnCount(ret.params.bp)
    /\ Len(ret.value.data) = ColumnCount(ret.params.bp)

----------------------------------------------------------------------------
(* FFT variants: prior construction of FFTBasisGP and FFTBasisCommonGP *)

MaxOversample == 2     \* oversample is 1..MaxOversample
MaxFmaxFactor == 2     \* fmax_factor is 1..MaxFmaxFactor
MaxCutbins    == 3     \* cutbins is 0..MaxCutbins
MaxComponents == 1     \* nknots = 2 * components + 1, components is 1..MaxComponents

\* t_knots returned as labels by utils.create_fft_time_basis: nknots evenly
\* spaced times from start_time
Knots(nknots, start, step) == [i \in 1..nknots |-> start + (i - 1) * step]

\* utils.knots_to_freqs: the frequency grid of the knots, from frequency
\* zero up to fmax_factor times the Nyquist frequency of the knot spacing,
\* in units of 1 / (oversample * Tspan)
knots_to_freqs(t_knots, oversample, fmax_factor) ==
    [i \in 1..(((Len(t_knots) - 1) \div 2) * oversample * fmax_factor + 1) |-> i - 1]

\* amplitude of the spectrum at frequency f for prior-parameter value pp
Amp(f, pp) == (pp + 1) * (f + 2)

\* np.diff(np.concatenate(([0], f)))
Diff0(f) == [i \in DOMAIN f |-> IF i = 1 THEN f[1] ELSE f[i] - f[i - 1]]

\* the spectrum function called with components=1: "df" weights every
\* amplitude by the spacing to the preceding frequency (as the spectra of
\* utils do), "plain" returns the amplitudes
Spectrum(kind, f, pp) ==
    [i \in DOMAIN f |-> IF kind = "df" THEN Amp(f[i], pp) * Diff0(f)[i] ELSE Amp(f[i], pp)]

Zeros(n) == [i \in 1..n |-> 0]

\* s[n:] of a Python sequence (n >= 0)
From(s, n) == SubSeq(s, n + 1, Len(s))

\* utils.psd2cov(t_knots, psd, fmax_factor=1): the transform is kept as the
\* application to its arguments
psd2cov(t_knots, psd, fmax_factor) ==
    [kind |-> "cov", t_knots |-> t_knots, psd |-> psd, fmax_factor |-> fmax_factor]

\* the PSD FFTBasisGP._construct_prior builds for one key (lines 280-293)
FFTBasisGP_psd_mirror(freqs, kind, pp, cutbins) ==
    IF cutbins = 0
    THEN LET freqs_prior == <<freqs[2]>> \o freqs
             psd_prior == Spectrum(kind, freqs_prior, pp)
         IN  <<-psd_prior[1]>> \o From(psd_prior, 2)
    ELSE LET psd_prior == Spectrum(kind, From(freqs, 1), pp)
         IN  Zeros(cutbins) \o From(psd_prior, cutbins - 1)

FFTBasisGP_psd(freqs, kind, pp, cutbins) ==
    IF cutbins = 0
    THEN LET freqs_prior == <<freqs[2]>> \o freqs
             psd_prior == Spectrum(kind, freqs_prior, pp)
         IN  <<-psd_prior[2]>> \o From(psd_prior, 2)
    ELSE LET psd_prior == Spectrum(kind, From(freqs, 1), pp)
         IN  Zeros(cutbins) \o From(psd_prior, cutbins - 1)

\* the PSD FFTBasisCommonGP._construct_prior builds (lines 641-648)
FFTBasisCommonGP_psd_shift(freqs, kind, pp, cutbins) ==
    IF cutbins = 0
    THEN LET freqs_prior == <<freqs[2]>> \o freqs
             psd_prior == Spectrum(kind, freqs_prior, pp)
         IN  <<-psd_prior[2]>> \o From(psd_prior, 2)
    ELSE LET psd_prior == Spectrum(kind, From(freqs, 1), pp)
         IN  Zeros(cutbins) \o From(psd_prior, cutbins)

FFTBasisCommonGP_psd(freqs, kind, pp, cutbins) ==
    IF cutbins = 0
    THEN LET freqs_prior == <<freqs[2]>> \o freqs
             psd_prior == Spectrum(kind, freqs_prior, pp)
         IN  <<-psd_prior[2]>> \o From(psd_prior, 2)
    ELSE LET psd_prior == Spectrum(kind, From(freqs, 1), pp)
         IN  Zeros(cutbins) \o From(psd_prior, cutbins - 1)

\* body of FFTBasisGP._construct_prior for the single key of no_selection:
\* the call of the transform, whose result is written at the key's slice
FFTBasisGP_construct_prior(c, t_knots, pp) ==
    LET freqs == knots_to_freqs(t_knots, c.oversample, c.fmax_factor)
        psd == FFTBasisGP_psd(freqs, c.spectrum, pp, c.cutbins)
    IN  [kind |-> "call", pp |-> pp, freqs |-> freqs, psd |-> psd,
         cov |-> psd2cov(t_knots, psd, c.fmax_factor)]

\* body of FFTBasisCommonGP._construct_prior; self._freqs was set by
\* _construct_basis with the factory's oversample and fmax_factor
FFTBasisCommonGP_construct_prior(c, t_knots, pp) ==
    LET freqs == knots_to_freqs(t_knots, c.oversample, c.fmax_factor)
        psd == FFTBasisCommonGP_psd(freqs, c.spectrum, pp, c.cutbins)
    IN  [kind |-> "call", pp |-> pp, freqs |-> freqs, psd |-> psd,
         cov |-> psd2cov(t_knots, psd, 1)]

\* value of the overlap-reduction function at a position against itself
OrfSelf == 1

FFTConfigs ==
    [components : 1..MaxComponents, oversample : 1..MaxOversample,
     fmax_factor : 1..MaxFmaxFactor, cutbins : 0..MaxCutbins,
     spectrum : {"df", "plain"}]

OthersOfFFT == UNCHANGED <<system, basisVars, wbVars, commonVars, nmatVars, factoryVars>>

InitOthersOfFFT ==
    /\ cfg = None /\ keys = <<>> /\ labels = EmptyMap /\ basis = <<>> /\ phi = <<>>
    /\ slices = EmptyMap /\ basisCache = EmptyCache /\ priorCache = EmptyCache
    /\ delayCache = EmptyCache /\ coefficients = EmptyMap /\ ret = NoCall /\ prev = None
    /\ wb = None /\ wbObj = None /\ wbRet = None
    /\ ccfg = None /\ Tmin = <<>> /\ Tmax = <<>> /\ inst = EmptyMap
    /\ cret = None /\ late = FALSE /\ constructed = <<>>
    /\ engines = <<>> /\ nret = None
    /\ fcall = None /\ fout = None

\* one FFTBasisGP instance and one FFTBasisCommonGP instance made by
\* factories called with the same arguments, over the same knots
InitFFT ==
    /\ system = "FFT"
    /\ \E c \in FFTConfigs :
          fft = [kind |-> "fft", components |-> c.components, oversample |-> c.oversample,
                 fmax_factor |-> c.fmax_factor, cutbins |-> c.cutbins,
                 spectrum |-> c.spectrum, t_knots |-> Knots(2 * c.components + 1, 0, 1)]
    /\ gpCall = None
    /\ cmCall = None
    /\ gpPhi = None
    /\ fftCache = [gpBasis |-> EmptyCache, gpPrior |-> EmptyCache,
                   cmBasis |-> EmptyCache, cmPrior |-> EmptyCache]
    /\ fftRet = None
    /\ InitOthersOfFFT

\* FFTBasisGP.get_phi (lines 303-307): the basis has no varying parameter,
\* so _construct_basis runs once and resets _phi; _construct_prior is
\* cached on the prior parameters
FFTBasisGP_get_phi(pp) ==
    /\ system = "FFT"
    /\ LET built == CacheHit(fftCache.gpBasis, <<>>)
           phi0 == IF built THEN gpPhi ELSE [kind |-> "empty", n |-> Len(fft.t_knots)]
           hit == CacheHit(fftCache.gpPrior, <<pp>>)
           call == FFTBasisGP_construct_prior(fft, fft.t_knots, pp)
           phi1 == IF hit THEN phi0 ELSE call.cov
       IN  /\ gpPhi' = phi1
           /\ gpCall' = IF hit THEN gpCall ELSE call
           /\ fftCache' = [fftCache EXCEPT
                  !.gpBasis = IF built THEN @ ELSE CachePut(@, <<>>, 0, 1),
                  !.gpPrior = IF hit THEN @ ELSE CachePut(@, <<pp>>, 0, NoLimit)]
           /\ fftRet' = [kind |-> "ret", class |-> "FFTBasisGP", pp |-> pp, value |-> phi1]
    /\ UNCHANGED <<fft, cmCall>>
    /\ OthersOfFFT

\* FFTBasisCommonGP.get_phi (lines 657-664)
FFTBasisCommonGP_get_phi(pp) ==
    /\ system = "FFT"
    /\ LET built == CacheHit(fftCache.cmBasis, <<>>)
           hit == CacheHit(fftCache.cmPrior, <<pp>>)
           call == FFTBasisCommonGP_construct_prior(fft, fft.t_knots, pp)
           phi1 == IF hit THEN CacheGet(fftCache.cmPrior, <<pp>>) ELSE call.cov
       IN  /\ cmCall' = IF hit THEN cmCall ELSE call
           /\ fftCache' = [fftCache EXCEPT
                  !.cmBasis = IF built THEN @ ELSE CachePut(@, <<>>, 0, 1),
                  !.cmPrior = IF hit THEN @ ELSE CachePut(@, <<pp>>, call.cov, NoLimit)]
           /\ fftRet' = [kind |-> "ret", class |-> "FFTBasisCommonGP", pp |-> pp,
                         value |-> [kind |-> "scaled", orf |-> OrfSelf, cov |-> phi1]]
    /\ UNCHANGED <<fft, gpCall, gpPhi>>
    /\ OthersOfFFT

NextFFT ==
    \/ \E pp \in PPVals : FFTBasisGP_get_phi(pp)
    \/ \E pp \in PPVals : FFTBasisCommonGP_get_phi(pp)

SpecFFT == InitFFT /\ [][NextFFT]_vars

----------------------------------------------------------------------------
(* Properties of the FFT prior construction *)

\* the calls of the transform made so far by the two instances
FFTCalls == {c \in {gpCall, cmCall} : c # None}

\* the grid on which the spectrum function is evaluated when cutbins = 0:
\* the frequency grid with its first nonzero frequency put in front
EvalGrid0(c) == <<c.freqs[2]>> \o c.freqs

\* C5 (as amended): with cutbins = 0 the PSD entry at index 0 is the
\* negative of the value the spectrum function returned for the
\* zero-frequency entry of the grid (the second entry of the grid it is
\* evaluated on); the other entries are the values returned for the nonzero
\* frequencies of the grid, and the PSD is as long as the grid.
C5_ZeroBinNegatesZeroFrequencyValue ==
    (system = "FFT" /\ fft.cutbins = 0) =>
        \A c \in FFTCalls :
            LET returned == Spectrum(fft.spectrum, EvalGrid0(c), c.pp)
            IN  /\ c.freqs = knots_to_freqs(fft.t_knots, fft.oversample, fft.fmax_factor)
                /\ EvalGrid0(c)[2] = 0
                /\ c.psd[1] = -returned[2]
                /\ Len(c.psd) = Len(c.freqs)
                /\ \A i \in 2..Len(c.psd) : c.psd[i] = returned[i + 1]

\* C5 witness: both instances have built a PSD with cutbins = 0 for a
\* spectrum that weights by the frequency spacing
C5_Witness ==
    /\ system = "FFT" /\ fft.cutbins = 0 /\ fft.spectrum = "df"
    /\ gpCall # None /\ cmCall # None
    /\ gpCall.psd[1] > 0 /\ cmCall.psd[1] > 0

\* C5 (as claimed): with cutbins = 0 the PSD entry at index 0 is the
\* negative of the value the spectrum function returned for the first
\* nonzero frequency, and not the one of the zero-frequency entry.
C5_ZeroBinMirrorsFirstNonzero ==
    (system = "FFT" /\ fft.cutbins = 0) =>
        \A c \in FFTCalls :
            LET returned == Spectrum(fft.spectrum, EvalGrid0(c), c.pp)
            IN  /\ EvalGrid0(c)[3] = c.freqs[2]
                /\ c.psd[1] = -returned[3]

\* C6: with cutbins = n >= 1, n not above the length of the frequency grid,
\* the PSD handed to the transform is as long as the grid, its first n
\* entries are zero and every entry at index i >= n is the value the
\* spectrum function returned for grid frequency i when evaluated on the
\* grid without its zero-frequency entry.
C6_CutbinsZeroLeadingBins ==
    (system = "FFT" /\ fft.cutbins >= 1) =>
        \A c \in FFTCalls :
            LET n == fft.cutbins
                returned == Spectrum(fft.spectrum, From(c.freqs, 1), c.pp)
            IN  /\ c.freqs = knots_to_freqs(fft.t_knots, fft.oversample, fft.fmax_factor)
                /\ n <= Len(c.freqs) =>
                      /\ Len(c.psd) = Len(c.freqs)
                      /\ c.cov.psd = c.psd
                      /\ \A i \in 1..n : c.psd[i] = 0
                      /\ \A i \in (n + 1)..Len(c.psd) : c.psd[i] = returned[i - 1]

\* C6 witness: both instances have built a PSD with two cutoff bins on a
\* grid that has frequencies beyond them
C6_Witness ==
    /\ system = "FFT" /\ fft.cutbins = 2
    /\ gpCall # None /\ cmCall # None
    /\ Len(gpCall.freqs) > 2 /\ gpCall.psd[3] # 0
    /\ Len(cmCall.freqs) > 2 /\ cmCall.psd[3] # 0

\* C7: for the same knots, spectrum, parameter values, oversample, cutbins
\* and fmax_factor the covariance FFTBasisCommonGP computes is the one
\* FFTBasisGP computes: both call the transform with the same arguments.
C7_CommonUsesSameTransform ==
    (system = "FFT" /\ gpCall # None /\ cmCall # None /\ gpCall.pp = cmCall.pp)
        => gpCall.cov = cmCall.cov

----------------------------------------------------------------------------
(* WidebandTimingModel: construction of an instance (lines 767-851) *)

NToa   == 2     \* observations of the wideband pulsar
MaxJump == 1    \* DM-jump values in params are 0..MaxJump
MaxDay == 2     \* observation days are 1..MaxDay
MaxDmx == 2     \* the pulsar has at most MaxDmx DMX intervals

Toas == 1..NToa

\* a DMX interval [DMXR1, DMXR2) in days, and whether it is fitted
DmxIntervals == {d \in [DMXR1 : 0..MaxDay, DMXR2 : 1..(MaxDay + 1), fit : BOOLEAN] : d.DMXR1 < d.DMXR2}

RECURSIVE SeqsUpTo(_, _)
SeqsUpTo(S, n) ==
    IF n = 0 THEN {<<>>}
    ELSE LET shorter == SeqsUpTo(S, n - 1)
         IN  shorter \cup {Append(q, x) : q \in {t \in shorter : Len(t) = n - 1}, x \in S}

\* dmjump_selection gives the keys (0 stands for the key "" of
\* no_selection); dmjump may be None; dmjump_ref is a key or None (-1)
JumpConfigs ==
    {[keys |-> {0}, dmjump |-> TRUE, dmjump_ref |-> -1],
     [keys |-> {0}, dmjump |-> FALSE, dmjump_ref |-> -1],
     [keys |-> {1, 2}, dmjump |-> TRUE, dmjump_ref |-> -1],
     [keys |-> {1, 2}, dmjump |-> TRUE, dmjump_ref |-> 1]}

ErrJump  == "can only do DMJUMP with more than one selection"
ErrFit   == "all DMX parameters must be estimated"
ErrCover == "cannot account for all TOAs in DMX intervals"
ErrDM    == "DM must not be estimated"

Raised(msg) == [kind |-> "ValueError", msg |-> msg]

\* (dmx["DMXR1"] <= psr.stoas / 86400) & (psr.stoas / 86400 < dmx["DMXR2"])
DmWhich(stoas, d) == [t \in Toas |-> IF d.DMXR1 <= stoas[t] /\ stoas[t] < d.DMXR2 THEN 1 ELSE 0]

\* check after the loop over the DMX intervals: check += self._dmwhich[-1]
Check(stoas, dmx) == [t \in Toas |-> SumSeq([i \in DOMAIN dmx |-> DmWhich(stoas, dmx[i])[t]])]

\* dmjump_select.masks of the pulsar: the key "" covers every observation,
\* the keys 1 and 2 the observations of odd and of even index
JumpMask(k, t) == IF k = 0 \/ (k = 1) = (t % 2 = 1) THEN 1 ELSE 0

\* psr.flags["pp_dm"]
RawDm(t) == 10 * t

\* the jump parameters: Constant(0.0) for the reference key
DmJumps(j) ==
    IF j.dmjump
    THEN LET ks == Sorted(j.keys)
         IN  [i \in DOMAIN ks |-> [key |-> ks[i], constant |-> (j.dmjump_ref # -1 /\ ks[i] = j.dmjump_ref)]]
    ELSE <<>>

\* WidebandTimingModel.__init__: the instance, or the error it raises
WidebandInit(w) ==
    IF Sorted(w.jump.keys) = <<0>> /\ w.jump.dmjump THEN Raised(ErrJump)
    ELSE IF \E i \in DOMAIN w.dmx : ~w.dmx[i].fit THEN Raised(ErrFit)
    ELSE IF SumSeq(Check(w.stoas, w.dmx)) # NToa THEN Raised(ErrCover)
    ELSE IF w.dmInFitpars THEN Raised(ErrDM)
    ELSE [kind |-> "instance",
          dmjumps |-> DmJumps(w.jump),
          dmjump_masks |-> [i \in DOMAIN DmJumps(w.jump) |->
                                [t \in Toas |-> JumpMask(DmJumps(w.jump)[i].key, t)]],
          dm |-> [t \in Toas |-> RawDm(t)],
          dmCache |-> EmptyCache,
          dmwhich |-> [i \in DOMAIN w.dmx |-> DmWhich(w.stoas, w.dmx[i])],
          ndmx |-> Len(w.dmx)]

OthersOfWB == UNCHANGED <<system, basisVars, fftVars, commonVars, nmatVars, factoryVars>>

InitOthersOfWB ==
    /\ cfg = None /\ keys = <<>> /\ labels = EmptyMap /\ basis = <<>> /\ phi = <<>>
    /\ slices = EmptyMap /\ basisCache = EmptyCache /\ priorCache = EmptyCache
    /\ delayCache = EmptyCache /\ coefficients = EmptyMap /\ ret = NoCall /\ prev = None
    /\ fft = None /\ gpCall = None /\ cmCall = None /\ gpPhi = None
    /\ fftCache = None /\ fftRet = None
    /\ ccfg = None /\ Tmin = <<>> /\ Tmax = <<>> /\ inst = EmptyMap
    /\ cret = None /\ late = FALSE /\ constructed = <<>>
    /\ engines = <<>> /\ nret = None
    /\ fcall = None /\ fout = None

InitWB ==
    /\ system = "Wideband"
    /\ wb \in [stoas : [Toas -> 1..MaxDay], dmx : SeqsUpTo(DmxIntervals, MaxDmx),
                dmInFitpars : BOOLEAN, jump : JumpConfigs]
    /\ wbObj = None
    /\ wbRet = None
    /\ InitOthersOfWB

\* WidebandTimingModel(psr)
Wideband_init ==
    /\ system = "Wideband"
    /\ wbObj = None
    /\ wbObj' = WidebandInit(wb)
    /\ UNCHANGED <<wb, wbRet>>
    /\ OthersOfWB

\* params dictionaries handed to get_dm: a value for every sampled jump
\* parameter and, possibly, an entry under the name of a Constant one
JumpParams(obj) ==
    LET names == {obj.dmjumps[i].key : i \in DOMAIN obj.dmjumps}
        sampled == {obj.dmjumps[i].key : i \in {j \in DOMAIN obj.dmjumps : ~obj.dmjumps[j].constant}}
    IN  UNION {[D -> 0..MaxJump] : D \in {E \in SUBSET names : sampled \subseteq E}}

\* params[jump.name] if jump.name in params else jump.value; only a
\* Constant(0.0) parameter can be missing from params, and its value is 0
JumpValue(jump, params) ==
    IF jump.key \in DOMAIN params THEN params[jump.key] ELSE 0

\* the body of get_dm (lines 900-906)
GetDm(obj, params) ==
    [t \in Toas |->
        SumSeq([i \in DOMAIN obj.dmjumps |-> JumpValue(obj.dmjumps[i], params) * obj.dmjump_masks[i][t]])
        + obj.dm[t]]

\* the values of the delay_params in params (lines 852-859), the key of
\* the caches of get_dm; the DMEFAC and DMEQUAD parameters are held fixed
DelayParamsKey(obj, params) ==
    [i \in DOMAIN obj.dmjumps |->
        IF obj.dmjumps[i].key \in DOMAIN params THEN params[obj.dmjumps[i].key] ELSE Absent]

\* get_dm(params) (lines 896-906)
Wideband_get_dm(params) ==
    /\ system = "Wideband"
    /\ wbObj # None /\ wbObj.kind = "instance"
    /\ params \in JumpParams(wbObj)
    /\ LET key == DelayParamsKey(wbObj, params)
       IN  IF CacheHit(wbObj.dmCache, key)
           THEN /\ wbRet' = [op |-> "get_dm", params |-> params, hit |-> TRUE,
                             value |-> CacheGet(wbObj.dmCache, key)]
                /\ UNCHANGED wbObj
           ELSE LET v == GetDm(wbObj, params)
                IN  /\ wbRet' = [op |-> "get_dm", params |-> params, hit |-> FALSE, value |-> v]
                    /\ wbObj' = [wbObj EXCEPT !.dmCache = CachePut(@, key, v, NoLimit)]
    /\ UNCHANGED wb
    /\ OthersOfWB

AllJumpParams == UNION {[D -> 0..MaxJump] : D \in SUBSET (0..2)}

NextWB ==
    \/ Wideband_init
    \/ \E params \in AllJumpParams : Wideband_get_dm(params)

SpecWB == InitWB /\ [][NextWB]_vars

\* how many DMX intervals contain observation t
Covering(t) == Cardinality({i \in DOMAIN wb.dmx :
                   wb.dmx[i].DMXR1 <= wb.stoas[t] /\ wb.stoas[t] < wb.dmx[i].DMXR2})

\* C4: construction succeeds only if the DMX intervals cover every
\* observation exactly once; with an observation in no interval or in two
\* or more intervals it raises the configuration error.
C4_ConstructedOnlyIfCoveredOnce ==
    (system = "Wideband" /\ wbObj # None /\ \E t \in Toas : Covering(t) # 1)
        => wbObj.kind = "ValueError"

\* C17 (as stated): with dmjump_ref naming one of the DM-jump keys, for
\* every params, also one with an entry under the reference parameter's
\* name, and every observation, get_dm(params) is the raw DM plus the jump
\* offsets of the non-reference keys whose mask contains the observation.
C17_ReferenceJumpPinned ==
    (system = "Wideband" /\ wbRet # None /\ wb.jump.dmjump_ref \in wb.jump.keys) =>
        \A t \in Toas :
            wbRet.value[t] =
                RawDm(t) + SumSeq([i \in DOMAIN wbObj.dmjumps |->
                    IF wbObj.dmjumps[i].key = wb.jump.dmjump_ref THEN 0
                    ELSE wbRet.params[wbObj.dmjumps[i].key] * wbObj.dmjump_masks[i][t]])

----------------------------------------------------------------------------
(* The common-GP classes: BasisCommonGP, FourierBasisCommonGP and          *)
(* FFTBasisCommonGP.  One class is made by its factory; instances of it    *)
(* are constructed for the series (pulsars) one after the other.           *)

NSeries == 2     \* the series are 1..NSeries
MaxConstructions == 3   \* instances constructed from one class
MaxCommonBP == 0 \* basis-parameter values of the common class are 0..MaxCommonBP
MaxCommonPP == 0 \* prior-parameter values of the common class are 0..MaxCommonPP

Series == 1..NSeries

\* psr.toas.min(), psr.toas.max() and psr.pos of the series
TMinOf(sr) == IF sr = 2 THEN 1 ELSE sr + 1
TMaxOf(sr) == IF sr = 2 THEN 3 ELSE sr + 4
PosOf(sr) == sr

\* explicit Tspan and start_time the factories may be given; -1 is None
GivenTspan == 6
GivenStart == 0
NotGiven == -1

\* the overlap-reduction function handed to the factory
Orf(kind, x, y) == IF kind = "sym" THEN x * y + x + y ELSE 2 * x + y

\* the arguments of the FFT prior construction in the common-GP class
\* (the factory's defaults for cutbins and fmax_factor)
CommonFFT == [components |-> 1, oversample |-> 1, fmax_factor |-> 1, cutbins |-> 1, spectrum |-> "df"]

\* the factory calls that return a class: with coefficients requested
\* FourierBasisCommonGP needs Tspan, and FFTBasisCommonGP returns no class;
\* given: the coefficients argument is an instantiated parameter
CommonConfigs ==
    {c \in [variant : {"BasisCommonGP", "FourierBasisCommonGP", "FFTBasisCommonGP"},
            coefficients : BOOLEAN, given : BOOLEAN, Tspan : {NotGiven, GivenTspan},
            start_time : {NotGiven, GivenStart}, orf : {"sym", "asym"}] :
        /\ c.given => c.coefficients
        /\ c.variant = "BasisCommonGP" => c.Tspan = NotGiven
        /\ c.variant # "FFTBasisCommonGP" => c.start_time = NotGiven
        /\ (c.variant = "FourierBasisCommonGP" /\ c.coefficients) => c.Tspan # NotGiven
        /\ c.variant = "FFTBasisCommonGP" => ~c.coefficients}

\* max(cls._Tmax) - min(cls._Tmin) and the other reads of the pooled bounds
PooledMin(tmin) == Min(Range(tmin))
PooledMax(tmax) == Max(Range(tmax))

\* the span and start the _construct_basis of the class hands to the basis
\* generator (lines 445, 559-560, 623-625); the basis of plain
\* BasisCommonGP is generated from the series' own observations
SpanFirstOnly(c, sr, tmin, tmax) ==
    IF c.variant = "BasisCommonGP" THEN [start |-> TMinOf(sr), span |-> TMaxOf(sr) - TMinOf(sr)]
    ELSE IF c.variant = "FourierBasisCommonGP"
    THEN [start |-> 0,
          span |-> IF c.Tspan # NotGiven THEN c.Tspan ELSE tmax[1] - tmin[1]]
    ELSE LET start == IF c.start_time # NotGiven THEN c.start_time ELSE tmin[1]
         IN  [start |-> start,
              span |-> IF c.Tspan # NotGiven THEN c.Tspan ELSE tmax[1] - start]

SpanAndStart(c, sr, tmin, tmax) ==
    IF c.variant = "BasisCommonGP" THEN [start |-> TMinOf(sr), span |-> TMaxOf(sr) - TMinOf(sr)]
    ELSE IF c.variant = "FourierBasisCommonGP"
    THEN [start |-> 0,
          span |-> IF c.Tspan # NotGiven THEN c.Tspan ELSE PooledMax(tmax) - PooledMin(tmin)]
    ELSE LET start == IF c.start_time # NotGiven THEN c.start_time ELSE PooledMin(tmin)
         IN  [start |-> start,
              span |-> IF c.Tspan # NotGiven THEN c.Tspan ELSE PooledMax(tmax) - start]

\* labels the basis generator returns: frequencies of the span, or (FFT)
\* three knots over the span from the start; the basis parameter scales
\* the span
CommonLabels(c, ss, bp) ==
    IF c.variant = "FFTBasisCommonGP"
    THEN [start |-> ss.start, span |-> ss.span, bp |-> bp,
          t_knots |-> Knots(2 * CommonFFT.components + 1, 2 * ss.start, ss.span * (bp + 1))]
    ELSE [start |-> ss.start, span |-> ss.span, bp |-> bp, t_knots |-> <<>>]

\* the prior of the class evaluated on labels: the spectrum (line 449, 507)
\* or, in the FFT class, the covariance of the transform (lines 641-650)
CommonPrior(c, labs, pp) ==
    IF c.variant = "FFTBasisCommonGP"
    THEN FFTBasisCommonGP_construct_prior(CommonFFT, labs.t_knots, pp).cov
    ELSE [kind |-> "prior", span |-> labs.span, bp |-> labs.bp, pp |-> pp]

NewInstance == [built |-> FALSE, labels |-> None, basisCache |-> EmptyCache,
                priorCache |-> EmptyCache, delayCache |-> EmptyCache,
                coefficients |-> None]

\* self._coefficients[""] (lines 410-428): the parameter given to the
\* factory, or a GPCoefficients parameter created with the log-prior
\* _get_coefficient_logprior
CoefficientParameter(c) ==
    IF ~c.coefficients THEN None
    ELSE IF c.given THEN [kind |-> "given"]
    ELSE [kind |-> "GPCoefficients", logprior |-> "_get_coefficient_logprior"]

\* _get_coefficient_logprior(c, **params) (lines 453-458)
get_coefficient_logprior_density(coef, p) == [kind |-> "density", coef |-> coef, pp |-> p.pp]

get_coefficient_logprior(coef, p) == [kind |-> "NotImplementedError"]

\* the log-prior of a coefficient parameter evaluated at a coefficient
\* vector: the function it was created with, or the given parameter's own
ParameterLogprior(par, coef, p) ==
    IF par.kind = "GPCoefficients" THEN get_coefficient_logprior(coef, p)
    ELSE [kind |-> "density", coef |-> coef, pp |-> -1]

\* @cache_call("basis_params", limit=1) around _construct_basis
CommonConstructBasis(c, I, sr, key, tmin, tmax) ==
    IF CacheHit(I.basisCache, key) THEN I
    ELSE [I EXCEPT !.built = TRUE,
                   !.labels = CommonLabels(c, SpanAndStart(c, sr, tmin, tmax),
                                           IF key = <<>> THEN DefaultBP ELSE key[1]),
                   !.basisCache = CachePut(I.basisCache, key, 0, 1)]

\* @cache_call("prior_params") around _construct_prior, which returns the
\* prior: the instance after the call and the value returned
CommonConstructPrior(c, I, pp) ==
    IF CacheHit(I.priorCache, <<pp>>)
    THEN [self |-> I, value |-> CacheGet(I.priorCache, <<pp>>)]
    ELSE LET v == CommonPrior(c, I.labels, pp)
         IN  [self |-> [I EXCEPT !.priorCache = CachePut(I.priorCache, <<pp>>, v, NoLimit)],
              value |-> v]

Scaled(prior, orf) == [kind |-> "scaled", prior |-> prior, orf |-> orf]

OthersOfCommon == UNCHANGED <<system, basisVars, fftVars, wbVars, nmatVars, factoryVars>>

InitOthersOfCommon ==
    /\ cfg = None /\ keys = <<>> /\ labels = EmptyMap /\ basis = <<>> /\ phi = <<>>
    /\ slices = EmptyMap /\ basisCache = EmptyCache /\ priorCache = EmptyCache
    /\ delayCache = EmptyCache /\ coefficients = EmptyMap /\ ret = NoCall /\ prev = None
    /\ fft = None /\ gpCall = None /\ cmCall = None /\ gpPhi = None
    /\ fftCache = None /\ fftRet = None
    /\ wb = None /\ wbObj = None /\ wbRet = None
    /\ engines = <<>> /\ nret = None
    /\ fcall = None /\ fout = None

\* the class as its factory returns it: no instance, empty pooled bounds
InitCommon ==
    /\ system = "CommonGP"
    /\ ccfg \in CommonConfigs
    /\ Tmin = <<>>
    /\ Tmax = <<>>
    /\ inst = EmptyMap
    /\ cret = None
    /\ late = FALSE
    /\ constructed = <<>>
    /\ InitOthersOfCommon

CommonReturned(op, sr, p, v) ==
    cret' = [kind |-> "ret", op |-> op, series |-> sr, params |-> p, value |-> v,
             constructed |-> IF op = "init" THEN DOMAIN inst \cup {sr} ELSE DOMAIN inst]

SomeBuilt == \E sr \in DOMAIN inst : inst[sr].built

\* _Tmin.append / _Tmax.append under `if start_time is None` / `if Tspan is
\* None` (lines 550-552, 612-616)
PoolAppendOnce(list, pooled, v) ==
    IF pooled /\ v \notin Range(list) THEN Append(list, v) ELSE list

PoolAppend(list, pooled, v) == IF pooled THEN Append(list, v) ELSE list

\* the class appends to _Tmin / to _Tmax
PoolsTmin(c) ==
    \/ c.variant = "FourierBasisCommonGP" /\ c.Tspan = NotGiven
    \/ c.variant = "FFTBasisCommonGP" /\ c.start_time = NotGiven

PoolsTmax(c) ==
    c.variant \in {"FourierBasisCommonGP", "FFTBasisCommonGP"} /\ c.Tspan = NotGiven

\* __init__ of the class (lines 389-428, 547-552, 609-616) for series sr;
\* a signal may be constructed again for a series that has one, and the
\* new instance then takes the place of the old one
Common_init(sr) ==
    /\ system = "CommonGP"
    /\ Len(constructed) < MaxConstructions
    /\ constructed' = Append(constructed, sr)
    /\ LET I == IF ccfg.coefficients
                THEN [CommonConstructBasis(ccfg, NewInstance, sr, <<>>, Tmin, Tmax)
                         EXCEPT !.coefficients = CoefficientParameter(ccfg)]
                ELSE NewInstance
       IN  inst' = [q \in DOMAIN inst \cup {sr} |-> IF q = sr THEN I ELSE inst[q]]
    /\ Tmin' = PoolAppend(Tmin, PoolsTmin(ccfg), TMinOf(sr))
    /\ Tmax' = PoolAppend(Tmax, PoolsTmax(ccfg), TMaxOf(sr))
    /\ late' = (late \/ SomeBuilt)
    /\ CommonReturned("init", sr, NoCall.params, None)
    /\ UNCHANGED ccfg
    /\ OthersOfCommon

\* get_basis (lines 472-473, 493-496)
Common_get_basis(sr, p) ==
    /\ system = "CommonGP"
    /\ sr \in DOMAIN inst
    /\ IF ccfg.coefficients
       THEN /\ CommonReturned("get_basis", sr, p, None)
            /\ UNCHANGED inst
       ELSE LET I == CommonConstructBasis(ccfg, inst[sr], sr, <<p.bp>>, Tmin, Tmax)
            IN  /\ inst' = [inst EXCEPT ![sr] = I]
                /\ CommonReturned("get_basis", sr, p, [kind |-> "matrix", series |-> sr, labels |-> I.labels])
    /\ UNCHANGED <<ccfg, Tmin, Tmax, late, constructed>>
    /\ OthersOfCommon

\* get_phi (lines 475-476, 498-503, 657-664)
Common_get_phi(sr, p) ==
    /\ system = "CommonGP"
    /\ sr \in DOMAIN inst
    /\ IF ccfg.coefficients
       THEN /\ CommonReturned("get_phi", sr, p, None)
            /\ UNCHANGED inst
       ELSE LET I == CommonConstructBasis(ccfg, inst[sr], sr, <<p.bp>>, Tmin, Tmax)
                r == CommonConstructPrior(ccfg, I, p.pp)
            IN  /\ inst' = [inst EXCEPT ![sr] = r.self]
                /\ CommonReturned("get_phi", sr, p,
                       Scaled(r.value, Orf(ccfg.orf, PosOf(sr), PosOf(sr))))
    /\ UNCHANGED <<ccfg, Tmin, Tmax, late, constructed>>
    /\ OthersOfCommon

\* get_phiinv of the coefficient-mode class (lines 481-482)
Common_get_phiinv(sr, p) ==
    /\ system = "CommonGP"
    /\ sr \in DOMAIN inst
    /\ ccfg.coefficients
    /\ CommonReturned("get_phiinv", sr, p, None)
    /\ UNCHANGED <<ccfg, Tmin, Tmax, inst, late, constructed>>
    /\ OthersOfCommon

\* get_phicross(signal1, signal2, params) of the marginalized class: the
\* prior of signal1 times the ORF between the two positions
\* (lines 505-510; lines 666-675 use signal1's cached _construct_prior)
PhicrossSelfOrf(c, I1, pos1, pos2, pp) ==
    IF c.variant = "FFTBasisCommonGP"
    THEN LET r == CommonConstructPrior(c, I1, pp)
         IN  [self |-> r.self, value |-> Scaled(r.value, Orf(c.orf, pos1, pos1))]
    ELSE [self |-> I1, value |-> Scaled(CommonPrior(c, I1.labels, pp), Orf(c.orf, pos1, pos1))]

Phicross(c, I1, pos1, pos2, pp) ==
    IF c.variant = "FFTBasisCommonGP"
    THEN LET r == CommonConstructPrior(c, I1, pp)
         IN  [self |-> r.self, value |-> Scaled(r.value, Orf(c.orf, pos1, pos2))]
    ELSE [self |-> I1, value |-> Scaled(CommonPrior(c, I1.labels, pp), Orf(c.orf, pos1, pos2))]

\* get_phicross reads signal1's labels (or knots), which exist once
\* signal1's basis has been constructed
Common_get_phicross(a, b, p) ==
    /\ system = "CommonGP"
    /\ a \in DOMAIN inst /\ b \in DOMAIN inst
    /\ IF ccfg.coefficients
       THEN /\ CommonReturned("get_phicross", <<a, b>>, p, None)
            /\ UNCHANGED inst
       ELSE /\ inst[a].built
            /\ LET r == Phicross(ccfg, inst[a], PosOf(a), PosOf(b), p.pp)
               IN  /\ inst' = [inst EXCEPT ![a] = r.self]
                   /\ CommonReturned("get_phicross", <<a, b>>, p, r.value)
    /\ UNCHANGED <<ccfg, Tmin, Tmax, late, constructed>>
    /\ OthersOfCommon

\* delay_params of an instance of the class
common_delay_params(sr) == IF ccfg.coefficients THEN {<<sr, "coefficients">>} ELSE {}

\* get_delay (lines 464-470, 490-491)
Common_get_delay(sr, p) ==
    /\ system = "CommonGP"
    /\ sr \in DOMAIN inst
    /\ IF ~ccfg.coefficients
       THEN /\ CommonReturned("get_delay", sr, p, [kind |-> "int", data |-> 0])
            /\ UNCHANGED inst
       ELSE LET key == IF p.coef = -1 THEN <<p.bp>> ELSE <<p.bp, p.coef>>
            IN  IF CacheHit(inst[sr].delayCache, key)
                THEN /\ CommonReturned("get_delay", sr, p, CacheGet(inst[sr].delayCache, key))
                     /\ UNCHANGED inst
                ELSE LET I == CommonConstructBasis(ccfg, inst[sr], sr, <<p.bp>>, Tmin, Tmax)
                         v == [kind |-> "vector", series |-> sr, labels |-> I.labels, coef |-> p.coef]
                     IN  /\ inst' = [inst EXCEPT ![sr] = [I EXCEPT !.delayCache = CachePut(@, key, v, NoLimit)]]
                         /\ CommonReturned("get_delay", sr, p, v)
    /\ UNCHANGED <<ccfg, Tmin, Tmax, late, constructed>>
    /\ OthersOfCommon

\* an evaluation of the coefficient log-prior of an instance of the
\* coefficient-mode class: the method _get_coefficient_logprior called
\* directly, or the log-prior of the instance's coefficient parameter
Common_logprior(sr, p, method) ==
    /\ system = "CommonGP"
    /\ sr \in DOMAIN inst
    /\ ccfg.coefficients
    /\ p.coef # -1
    /\ IF method
       THEN CommonReturned("_get_coefficient_logprior", sr, p, get_coefficient_logprior(p.coef, p))
       ELSE CommonReturned("logprior", sr, p, ParameterLogprior(inst[sr].coefficients, p.coef, p))
    /\ UNCHANGED <<ccfg, Tmin, Tmax, inst, late, constructed>>
    /\ OthersOfCommon

\* params dictionaries handed to the methods of the common class
CommonParams == [bp : 0..MaxCommonBP, pp : 0..MaxCommonPP, coef : {-1}]
CommonDelayParams == [bp : 0..MaxCommonBP, pp : 0..MaxCommonPP, coef : {-1} \cup (0..MaxCoef)]

NextCommon ==
    \/ \E sr \in Series : Common_init(sr)
    \/ \E sr \in Series, p \in CommonParams : Common_get_basis(sr, p)
    \/ \E sr \in Series, p \in CommonParams : Common_get_phi(sr, p)
    \/ \E sr \in Series, p \in CommonParams : Common_get_phiinv(sr, p)
    \/ \E a \in Series, b \in Series, p \in CommonParams : Common_get_phicross(a, b, p)
    \/ \E sr \in Series, p \in CommonDelayParams : Common_get_delay(sr, p)
    \/ \E sr \in Series, p \in CommonDelayParams, method \in BOOLEAN : Common_logprior(sr, p, method)

SpecCommon == InitCommon /\ [][NextCommon]_vars

\* a BasisGP instance or a common-GP class
SpecGP == (InitBasis \/ InitCommon) /\ [][NextBasis \/ NextCommon]_vars

----------------------------------------------------------------------------
(* Properties of the common-GP classes *)

\* what get_phicross(a, b, params) returns in the current state, and the
\* prior it uses for its first argument
PhicrossValue(a, b, pp) == Phicross(ccfg, inst[a], PosOf(a), PosOf(b), pp).value

UsedPrior(a, pp) ==
    IF ccfg.variant = "FFTBasisCommonGP"
    THEN CommonConstructPrior(ccfg, inst[a], pp).value
    ELSE CommonPrior(ccfg, inst[a].labels, pp)

BuiltSeries == {sr \in DOMAIN inst : inst[sr].built}

OrfSymmetric == \A x \in Series, y \in Series :
                    Orf(ccfg.orf, PosOf(x), PosOf(y)) = Orf(ccfg.orf, PosOf(y), PosOf(x))

\* C8 (as claimed): with a symmetric overlap-reduction function
\* get_phicross(a, b, params) equals get_phicross(b, a, params) for every
\* pair of instances of a marginalized common-GP class, also when their
\* basis labels differ.
C8_PhicrossSymmetric ==
    (system = "CommonGP" /\ ~ccfg.coefficients /\ OrfSymmetric) =>
        \A a \in BuiltSeries, b \in BuiltSeries, pp \in 0..MaxCommonPP :
            PhicrossValue(a, b, pp) = PhicrossValue(b, a, pp)

\* C8 (as amended): with a symmetric overlap-reduction function
\* get_phicross(a, b, params) equals get_phicross(b, a, params) whenever
\* the two calls use the same prior for their first argument; in
\* BasisCommonGP and FourierBasisCommonGP that is so whenever a and b hold
\* equal basis labels.
C8_PhicrossSymmetricOnEqualPrior ==
    (system = "CommonGP" /\ ~ccfg.coefficients /\ OrfSymmetric) =>
        \A a \in BuiltSeries, b \in BuiltSeries, pp \in 0..MaxCommonPP :
            /\ UsedPrior(a, pp) = UsedPrior(b, pp)
                  => PhicrossValue(a, b, pp) = PhicrossValue(b, a, pp)
            /\ (ccfg.variant # "FFTBasisCommonGP" /\ inst[a].labels = inst[b].labels)
                  => PhicrossValue(a, b, pp) = PhicrossValue(b, a, pp)

\* C8 witness: get_phicross was called for two different series that hold
\* equal labels, under a symmetric overlap-reduction function
C8_Witness ==
    /\ system = "CommonGP" /\ ~ccfg.coefficients /\ ccfg.orf = "sym"
    /\ cret # None /\ cret.op = "get_phicross"
    /\ cret.series[1] # cret.series[2]
    /\ cret.series[2] \in BuiltSeries
    /\ inst[cret.series[1]].labels = inst[cret.series[2]].labels
    /\ cret.value = PhicrossValue(cret.series[2], cret.series[1], cret.params.pp)

\* the class pools both time bounds
FullyPooled ==
    \/ ccfg.variant = "FourierBasisCommonGP" /\ ccfg.Tspan = NotGiven
    \/ ccfg.variant = "FFTBasisCommonGP" /\ ccfg.Tspan = NotGiven /\ ccfg.start_time = NotGiven

\* maximum of the latest minus minimum of the earliest observation times
\* of a set of series
SpanOver(S) == Max({TMaxOf(sr) : sr \in S}) - Min({TMinOf(sr) : sr \in S})

\* C9 (as claimed): in a class that pools the time bounds every basis
\* get_basis returns is built with the span of all constructed instances,
\* maximum of their latest minus minimum of their earliest observation
\* times, however constructions and get_basis calls are interleaved.
C9_BasisSpansAllConstructed ==
    (/\ system = "CommonGP" /\ FullyPooled
     /\ cret # None /\ cret.op = "get_basis" /\ cret.value # None)
    => cret.value.labels.span = SpanOver(cret.constructed)

\* C9 (as amended): when no instance is constructed after a basis of the
\* class was constructed, every constructed basis uses the bounds of all
\* instances: the span is the maximum of their latest minus the minimum of
\* their earliest observation times; in FFTBasisCommonGP a supplied
\* start_time or Tspan stands in for the pooled start or span.
C9_BasisSpansAllWhenConstructedFirst ==
    (system = "CommonGP" /\ ~late /\ ccfg.variant # "BasisCommonGP") =>
        \A sr \in BuiltSeries :
            LET all == DOMAIN inst
                start == IF ccfg.start_time # NotGiven THEN ccfg.start_time
                         ELSE Min({TMinOf(q) : q \in all})
                span == inst[sr].labels.span
            IN  /\ FullyPooled => span = SpanOver(all)
                /\ ccfg.Tspan # NotGiven => span = ccfg.Tspan
                /\ (ccfg.variant = "FFTBasisCommonGP" /\ ccfg.Tspan = NotGiven)
                      => /\ span = Max({TMaxOf(q) : q \in all}) - start
                         /\ inst[sr].labels.start = start
                /\ \A q \in BuiltSeries : inst[q].labels.span = span

\* C9 witness: both bounds pooled, two instances constructed before any
\* basis, and get_basis returned a basis over their common span
C9_Witness ==
    /\ system = "CommonGP" /\ FullyPooled /\ ~late
    /\ Cardinality(DOMAIN inst) >= 2 /\ BuiltSeries = DOMAIN inst
    /\ cret # None /\ cret.op = "get_basis"
    /\ cret.value.labels.span = SpanOver(DOMAIN inst)
    /\ \A sr \in DOMAIN inst : cret.value.labels.span # TMaxOf(sr) - TMinOf(sr)

\* C10: in coefficient mode get_basis, get_phi and get_phiinv of BasisGP
\* and BasisCommonGP instances return None, whatever was called before; in
\* marginalized mode get_delay returns 0 and delay_params is empty.
C10_CoefficientModeHidesMarginalizedOutputs ==
    /\ system = "BasisGP" =>
          /\ (cfg.coefficients /\ ret.op \in {"get_basis", "get_phi", "get_phiinv"})
                => ret.value = None
          /\ ~cfg.coefficients =>
                /\ delay_params = {}
                /\ ret.op = "get_delay" => ret.value = [kind |-> "int", data |-> 0]
    /\ (system = "CommonGP" /\ cret # None) =>
          /\ (ccfg.coefficients /\ cret.op \in {"get_basis", "get_phi", "get_phiinv"})
                => cret.value = None
          /\ ~ccfg.coefficients =>
                /\ \A sr \in DOMAIN inst : common_delay_params(sr) = {}
                /\ cret.op = "get_delay" => cret.value = [kind |-> "int", data |-> 0]

\* C10 witness: a coefficient-mode BasisGP instance answered get_phi after
\* a get_delay call had rebuilt its basis
C10_Witness ==
    /\ system = "BasisGP" /\ cfg.coefficients
    /\ ret.op = "get_phi" /\ ret.value = None
    /\ prev # None /\ prev.op = "get_delay"
    /\ Built /\ BuiltBP = 1

\* the coefficient log-prior of an instance was evaluated
LogpriorEvaluated ==
    system = "CommonGP" /\ cret # None /\ cret.op \in {"logprior", "_get_coefficient_logprior"}

\* C14 (as stated): for every instance of a common-GP class built with
\* coefficients requested, every evaluation of its coefficient log-prior
\* raises the not-implemented error and never returns a density.
C14_CommonLogpriorAlwaysRaises ==
    LogpriorEvaluated => cret.value.kind = "NotImplementedError"

\* C14 (amended): every call of _get_coefficient_logprior raises the
\* not-implemented error, and so does every evaluation of the log-prior of
\* the coefficient parameter an instance creates; an instance built with an
\* instantiated coefficient parameter adopts that parameter, whose log-prior
\* is not _get_coefficient_logprior.
C14_CreatedCoefficientLogpriorRaises ==
    /\ (LogpriorEvaluated /\ (cret.op = "_get_coefficient_logprior" \/ ~ccfg.given))
          => cret.value.kind = "NotImplementedError"
    /\ (system = "CommonGP" /\ ccfg # None /\ ccfg.coefficients) =>
          \A sr \in DOMAIN inst :
              IF ccfg.given THEN inst[sr].coefficients = [kind |-> "given"]
              ELSE /\ inst[sr].coefficients.kind = "GPCoefficients"
                   /\ inst[sr].coefficients.logprior = "_get_coefficient_logprior"

\* C14 witness: the log-prior of the coefficient parameter an instance
\* created is evaluated and raises
C14_Witness ==
    /\ LogpriorEvaluated /\ cret.op = "logprior" /\ ~ccfg.given
    /\ inst[cret.series].coefficients.kind = "GPCoefficients"
    /\ cret.value.kind = "NotImplementedError"

\* the entries the constructions so far append to a pooled list
Appended(pooled, Of(_)) ==
    IF pooled THEN [i \in 1..Len(constructed) |-> Of(constructed[i])] ELSE <<>>

IsPrefix(a, b) == Len(a) <= Len(b) /\ SubSeq(b, 1, Len(a)) = a

\* C16 (as stated): the pooled bounds are append-only, an explicit Tspan or
\* start_time suppresses the append, and each list holds exactly one entry
\* per participating series, also when a signal is constructed more than
\* once for the same series.
C16_PooledOncePerSeries ==
    system = "CommonGP" =>
        /\ Len(Tmin) = IF PoolsTmin(ccfg) THEN Cardinality(DOMAIN inst) ELSE 0
        /\ Len(Tmax) = IF PoolsTmax(ccfg) THEN Cardinality(DOMAIN inst) ELSE 0

\* C16 (amended): constructing an instance changes the pooled lists only by
\* appending that series' bounds, no other operation changes them, an
\* explicit Tspan (Fourier: both lists; FFT: _Tmax) or start_time (FFT:
\* _Tmin) suppresses the append, and each list holds one entry per
\* construction: a series constructed n times has n equal entries, and the
\* values in a list are those of the participating series.
C16_PooledOncePerConstruction ==
    /\ [](system = "CommonGP" =>
            /\ Tmin = Appended(PoolsTmin(ccfg), TMinOf)
            /\ Tmax = Appended(PoolsTmax(ccfg), TMaxOf)
            /\ PoolsTmin(ccfg) => Range(Tmin) = {TMinOf(sr) : sr \in DOMAIN inst}
            /\ PoolsTmax(ccfg) => Range(Tmax) = {TMaxOf(sr) : sr \in DOMAIN inst})
    /\ [][system = "CommonGP" =>
            /\ IsPrefix(Tmin, Tmin') /\ IsPrefix(Tmax, Tmax')
            /\ (Tmin' # Tmin \/ Tmax' # Tmax) =>
                  /\ cret'.op = "init"
                  /\ Tmin' \in {Tmin, Append(Tmin, TMinOf(cret'.series))}
                  /\ Tmax' \in {Tmax, Append(Tmax, TMaxOf(cret'.series))}
            /\ cret'.op # "init" => (Tmin' = Tmin /\ Tmax' = Tmax)]_vars

\* C16 witness: a class pooling both bounds, a second signal constructed for
\* a series after a basis was built and a matrix was read, leaving two equal
\* entries for that series
C16_Witness ==
    /\ system = "CommonGP" /\ PoolsTmin(ccfg) /\ PoolsTmax(ccfg)
    /\ Len(constructed) = 3 /\ Cardinality(DOMAIN inst) = 2
    /\ cret.op = "init" /\ late
    /\ Len(Tmin) = 3 /\ Len(Tmax) = 3
    /\ \E i, j \in 1..3 : i # j /\ constructed[i] = constructed[j] /\ Tmin[i] = Tmin[j]

----------------------------------------------------------------------------
(* MarginalizingNmat: the marginalizing solve engine *)

NArrays    == 6   \* the array objects handed to the engines are 1..NArrays
MaxEngines == 3   \* engines created in one behaviour of additions
MaxMemoEngines == 2  \* engines created in one behaviour of additions and helper calls
MaxCols    == 2   \* the basis M has 1..MaxCols columns
MaxAddend  == 1   \* the noise contributions have the values 1..MaxAddend

\* The array objects.  An object is its identity (id), its number of
\* dimensions and its value: objects 1 and 2 are vectors equal in value,
\* 3 and 4 are matrices equal in value, 5 is 3-dimensional, the others are
\* 0-dimensional.
Ndim(id) == IF id <= 2 THEN 1 ELSE IF id <= 4 THEN 2 ELSE IF id = 5 THEN 3 ELSE 0
ArrayObj(id) == [kind |-> "ndarray", id |-> id, ndim |-> Ndim(id), val |-> 0]
Arrays == {ArrayObj(id) : id \in 1..NArrays}
Vectors  == {a \in Arrays : a.ndim = 1}
Matrices == {a \in Arrays : a.ndim = 2}

\* what a computation on an array depends on: its shape and entries
ValueOf(a) == [ndim |-> a.ndim, val |-> a.val]

\* self.Mmat as the left_array of the noise operator's solve
MmatObj(cols) == [kind |-> "ndarray", id |-> 0, ndim |-> 2, val |-> 100 + cols]

\* what can be added to an engine: a noise array, an operator with a solve
\* capability, numbers, None, and the engines themselves
NoiseArrays == {[kind |-> "ndarray", id |-> 10 + v, ndim |-> 1, val |-> v] : v \in 1..MaxAddend}
Operators   == {[kind |-> "operator", val |-> v] : v \in 1..MaxAddend}
Number(v)   == [kind |-> "number", val |-> v]
EngineRef(i) == [kind |-> "MarginalizingNmat", idx |-> i]
Addends == NoiseArrays \cup Operators \cup {Number(0), Number(5), None}
               \cup {EngineRef(i) : i \in 1..Len(engines)}

\* the noise operator of an engine: 0 plus the contributions added, in order
HasSolve(N) == \E i \in DOMAIN N : N[i].kind = "operator"

\* Mmat.shape[1] * np.log(1e40): the number that multiplies log(1e40); the
\* basis Mmat is held as its number of columns
LogPrior(Mmat) == [f |-> "k * log(1e40)", k |-> Mmat]

\* MarginalizingNmat.__init__ (lines 1038-1040); parent and added record
\* the addition that made the engine
NewEngine(Mmat, Nmat, parent, added) ==
    [Mmat |-> Mmat, Nmat |-> Nmat, Mprior |-> LogPrior(Mmat),
     MNr |-> None, MNF |-> None, MNMMNF |-> None, cf |-> FALSE,
     parent |-> parent, added |-> added]

\* an addition that keeps only the new term
NmatReplace(N, other) == <<other>>

\* self.Nmat + other (line 1046)
NmatPlus(N, other) == Append(N, other)

\* MarginalizingNmat.__add__ (lines 1042-1050): the outcome and the engine
\* created, if any
Add(i, other) ==
    LET E == engines[i]
    IN  IF other.kind = "MarginalizingNmat"
        THEN [out |-> [kind |-> "ValueError"], new |-> <<>>]
        ELSE IF other.kind = "ndarray" \/ other.kind = "operator"
        THEN [out |-> [kind |-> "engine", idx |-> Len(engines) + 1],
              new |-> <<NewEngine(E.Mmat, NmatPlus(E.Nmat, other), i, other)>>]
        ELSE IF other.kind = "number" /\ other.val = 0
        THEN [out |-> [kind |-> "engine", idx |-> i], new |-> <<>>]
        ELSE [out |-> [kind |-> "TypeError"], new |-> <<>>]

\* the values the noise operator and the Cholesky factor return
NSolve(N, right, left) ==
    [f |-> "Nmat.solve", N |-> N, right |-> ValueOf(right), left |-> ValueOf(left)]
Cholesky(E) == [f |-> "cholesky", N |-> E.Nmat, M |-> E.Mmat]
CfSolve(E, x) == [f |-> "cf()", factor |-> Cholesky(E), x |-> x]

\* signal_base.simplememobyid: the stored result is returned when the
\* argument is the object of the stored call
MemoHitByValue(memo, arg) == memo # None /\ ValueOf(memo.arg) = ValueOf(arg)
MemoHit(memo, arg) == memo # None /\ memo.arg = arg

\* the property cf (lines 1056-1060), computed once per engine
cf(E) == [E |-> [E EXCEPT !.cf = TRUE], val |-> Cholesky(E)]

\* MNr, MNF and MNMMNF (lines 1062-1072)
MNr(E, res) ==
    IF MemoHit(E.MNr, res)
    THEN [E |-> E, val |-> E.MNr.val, recomputed |-> FALSE]
    ELSE LET v == NSolve(E.Nmat, res, MmatObj(E.Mmat))
         IN  [E |-> [E EXCEPT !.MNr = [arg |-> res, val |-> v]], val |-> v, recomputed |-> TRUE]

MNF(E, T) ==
    IF MemoHit(E.MNF, T)
    THEN [E |-> E, val |-> E.MNF.val, recomputed |-> FALSE]
    ELSE LET v == NSolve(E.Nmat, T, MmatObj(E.Mmat))
         IN  [E |-> [E EXCEPT !.MNF = [arg |-> T, val |-> v]], val |-> v, recomputed |-> TRUE]

MNMMNF(E, T) ==
    IF MemoHit(E.MNMMNF, T)
    THEN [E |-> E, val |-> E.MNMMNF.val, recomputed |-> FALSE]
    ELSE LET c == cf(E)
             a == MNF(c.E, T)
             v == CfSolve(E, a.val)
         IN  [E |-> [a.E EXCEPT !.MNMMNF = [arg |-> T, val |-> v]], val |-> v, recomputed |-> TRUE]

\* the four accepted argument shapes of solve (lines 1076, 1084, 1089, 1094)
VectorItself(right, left)  == right.ndim = 1 /\ left = right
VectorMatrix(right, left)  == right.ndim = 1 /\ left # None /\ left.ndim = 2
MatrixItself(right, left)  == right.ndim = 2 /\ left = right

\* a fourth branch that takes two matrices only
SameNdimMatrixOnly(right, left) == left # None /\ right.ndim = left.ndim /\ right.ndim = 2

\* right.ndim == left_array.ndim and right.ndim <= 2 (line 1094)
SameNdim(right, left)      == left # None /\ right.ndim = left.ndim /\ right.ndim <= 2

Sub(a, b) == [f |-> "sub", a |-> a, b |-> b]
Tensordot(a, b) == [f |-> "dot", a |-> a, b |-> b]
Value(v) == [kind |-> "value", value |-> v]

\* logdet_N + self.cf.logdet() + self.Mprior: the sum, held as its terms
LogdetSum(N, factor, Mprior) ==
    [f |-> "sum", logdet_N |-> [f |-> "logdet", of |-> N],
     cf |-> [f |-> "logdet", of |-> factor], Mprior |-> Mprior]

\* a return that leaves the flag aside
VectorReturnBare(logdet, v, ld) == Value(v)

\* return (ret, logdet_N + self.cf.logdet() + self.Mprior) if logdet else ret
\* (line 1083)
VectorReturn(logdet, v, ld) ==
    IF logdet THEN [kind |-> "pair", value |-> v, logdet |-> ld] ELSE Value(v)

\* MarginalizingNmat.solve (lines 1075-1101)
Solve(E, right, left, logdet) ==
    IF VectorItself(right, left)
    THEN IF ~HasSolve(E.Nmat) THEN [E |-> E, out |-> [kind |-> "AttributeError"]]
         ELSE LET rNr == NSolve(E.Nmat, right, right)
                  m   == MNr(E, right)
                  c   == cf(m.E)
                  v   == Sub(rNr, Tensordot(m.val, CfSolve(E, m.val)))
              IN  [E |-> c.E,
                   out |-> VectorReturn(logdet, v, LogdetSum(E.Nmat, c.val, E.Mprior))]
    ELSE IF VectorMatrix(right, left)
    THEN IF ~HasSolve(E.Nmat) THEN [E |-> E, out |-> [kind |-> "AttributeError"]]
         ELSE LET TNr == NSolve(E.Nmat, right, left)
                  a   == MNMMNF(E, left)
                  m   == MNr(a.E, right)
              IN  [E |-> m.E, out |-> Value(Sub(TNr, Tensordot(a.val, m.val)))]
    ELSE IF MatrixItself(right, left)
    THEN IF ~HasSolve(E.Nmat) THEN [E |-> E, out |-> [kind |-> "AttributeError"]]
         ELSE LET TNT == NSolve(E.Nmat, right, right)
                  a   == MNF(E, right)
                  b   == MNMMNF(a.E, right)
              IN  [E |-> b.E, out |-> Value(Sub(TNT, Tensordot(a.val, b.val)))]
    ELSE IF SameNdim(right, left)
    THEN IF ~HasSolve(E.Nmat) THEN [E |-> E, out |-> [kind |-> "AttributeError"]]
         ELSE LET LNT == NSolve(E.Nmat, right, left)
                  a   == MNF(E, left)
                  b   == MNMMNF(a.E, right)
              IN  [E |-> b.E, out |-> Value(Sub(LNT, Tensordot(a.val, b.val)))]
    ELSE [E |-> E, out |-> [kind |-> "ValueError"]]

OthersOfNmat == UNCHANGED <<system, basisVars, fftVars, wbVars, commonVars, factoryVars>>

InitOthersOfNmat ==
    /\ cfg = None /\ keys = <<>> /\ labels = EmptyMap /\ basis = <<>> /\ phi = <<>>
    /\ slices = EmptyMap /\ basisCache = EmptyCache /\ priorCache = EmptyCache
    /\ delayCache = EmptyCache /\ coefficients = EmptyMap /\ ret = NoCall /\ prev = None
    /\ fft = None /\ gpCall = None /\ cmCall = None /\ gpPhi = None
    /\ fftCache = None /\ fftRet = None
    /\ wb = None /\ wbObj = None /\ wbRet = None
    /\ ccfg = None /\ Tmin = <<>> /\ Tmax = <<>> /\ inst = EmptyMap
    /\ cret = None /\ late = FALSE /\ constructed = <<>>
    /\ fcall = None /\ fout = None

\* MarginalizingNmat(Mmat) as get_ndiag creates it (line 1032), or
\* MarginalizingNmat(Mmat, Nmat) with a noise operator
InitNmat ==
    /\ system = "MarginalizingNmat"
    /\ \E cols \in 1..MaxCols : \E N \in {<<>>} \cup {<<o>> : o \in Operators} :
          engines = <<NewEngine(cols, N, 0, None)>>
    /\ nret = None
    /\ InitOthersOfNmat

\* engine + other (side = "add") and other + engine (side = "radd")
Nmat_add(i, other, side) ==
    /\ system = "MarginalizingNmat"
    /\ LET r == Add(i, other)
       IN  /\ Len(engines) + Len(r.new) <= MaxEngines
           /\ engines' = engines \o r.new
           /\ nret' = [op |-> "add", e |-> i, side |-> side, other |-> other, out |-> r.out]
    /\ OthersOfNmat

\* a call of one of the memoized helpers
HelperCall(i, name, arg, r) ==
    /\ engines' = [engines EXCEPT ![i] = r.E]
    /\ nret' = [op |-> name, e |-> i, arg |-> arg, before |-> engines[i][name],
                out |-> Value(r.val), recomputed |-> r.recomputed]

Nmat_MNr(i, res) ==
    /\ system = "MarginalizingNmat"
    /\ HasSolve(engines[i].Nmat)
    /\ HelperCall(i, "MNr", res, MNr(engines[i], res))
    /\ OthersOfNmat

Nmat_MNF(i, T) ==
    /\ system = "MarginalizingNmat"
    /\ HasSolve(engines[i].Nmat)
    /\ HelperCall(i, "MNF", T, MNF(engines[i], T))
    /\ OthersOfNmat

Nmat_MNMMNF(i, T) ==
    /\ system = "MarginalizingNmat"
    /\ HasSolve(engines[i].Nmat)
    /\ HelperCall(i, "MNMMNF", T, MNMMNF(engines[i], T))
    /\ OthersOfNmat

Nmat_solve(i, right, left, logdet) ==
    /\ system = "MarginalizingNmat"
    /\ LET r == Solve(engines[i], right, left, logdet)
       IN  /\ engines' = [engines EXCEPT ![i] = r.E]
           /\ nret' = [op |-> "solve", e |-> i, right |-> right, left |-> left,
                       logdet |-> logdet, out |-> r.out]
    /\ OthersOfNmat

\* engines under addition
NextAdd ==
    \E i \in DOMAIN engines : \E other \in Addends : \E side \in {"add", "radd"} :
        Nmat_add(i, other, side)

SpecAdd == InitNmat /\ [][NextAdd]_vars

\* engines under addition and calls of their memoized helpers
NextNmat ==
    \/ \E i \in DOMAIN engines : \E other \in Addends : \E side \in {"add", "radd"} :
          Nmat_add(i, other, side) /\ Len(engines') <= MaxMemoEngines
    \/ \E i \in DOMAIN engines : \E res \in Vectors : Nmat_MNr(i, res)
    \/ \E i \in DOMAIN engines : \E T \in Matrices : Nmat_MNF(i, T)
    \/ \E i \in DOMAIN engines : \E T \in Matrices : Nmat_MNMMNF(i, T)

SpecNmat == InitNmat /\ [][NextNmat]_vars

\* one engine under solve and calls of its memoized helpers
NextSolve ==
    \/ \E res \in Vectors : Nmat_MNr(1, res)
    \/ \E T \in Matrices : Nmat_MNF(1, T)
    \/ \E T \in Matrices : Nmat_MNMMNF(1, T)
    \/ \E right \in Arrays : \E left \in Arrays \cup {None} :
          \E logdet \in BOOLEAN : Nmat_solve(1, right, left, logdet)

SpecSolve == InitNmat /\ [][NextSolve]_vars

----------------------------------------------------------------------------
(* Properties of MarginalizingNmat *)

\* the contributions added on the way from the first engine to engine i
RECURSIVE AddedTo(_)
AddedTo(i) ==
    IF engines[i].parent = 0 THEN <<>>
    ELSE Append(AddedTo(engines[i].parent), engines[i].added)

RECURSIVE RootOf(_)
RootOf(i) == IF engines[i].parent = 0 THEN i ELSE RootOf(engines[i].parent)

AdditionOutcome ==
    (nret # None /\ nret.op = "add") =>
        LET E == engines[nret.e]
            other == nret.other
        IN  /\ other.kind = "MarginalizingNmat" => nret.out.kind = "ValueError"
            /\ other = Number(0) => nret.out = [kind |-> "engine", idx |-> nret.e]
            /\ other.kind \in {"ndarray", "operator"} =>
                  /\ nret.out.kind = "engine"
                  /\ nret.out.idx # nret.e
                  /\ engines[nret.out.idx].Mmat = E.Mmat
                  /\ engines[nret.out.idx].Nmat = E.Nmat \o <<other>>
            /\ (other.kind \notin {"MarginalizingNmat", "ndarray", "operator"} /\ other # Number(0))
                  => nret.out.kind = "TypeError"

\* C12: addition from either side: another engine raises ValueError, a
\* literal zero returns the very same engine, an array or an operator with
\* solve returns a new engine with the same basis whose noise operator is
\* the old one plus the addend, anything else raises TypeError; no addition
\* changes the basis or the noise operator of an existing engine, and every
\* engine's noise operator is the first engine's plus all addends in order.
C12_Addition ==
    /\ [](system = "MarginalizingNmat" =>
            /\ AdditionOutcome
            /\ \A i \in DOMAIN engines :
                  /\ engines[i].Nmat = engines[RootOf(i)].Nmat \o AddedTo(i)
                  /\ engines[i].Mmat = engines[RootOf(i)].Mmat)
    /\ [][system = "MarginalizingNmat" =>
            \A i \in DOMAIN engines :
                engines'[i].Mmat = engines[i].Mmat /\ engines'[i].Nmat = engines[i].Nmat]_vars

\* C12 witness: an engine made by two additions, the second from the left
\* (other + engine)
C12_Witness ==
    /\ system = "MarginalizingNmat" /\ Len(engines) = 3
    /\ engines[3].parent = 2 /\ engines[2].parent = 1
    /\ nret # None /\ nret.op = "add" /\ nret.side = "radd"
    /\ nret.out = [kind |-> "engine", idx |-> 3]
    /\ Len(engines[3].Nmat) >= 2

\* the last call was solve(right, left_array, logdet)
Solved == system = "MarginalizingNmat" /\ nret # None /\ nret.op = "solve"

\* the four argument shapes of section 4.6: a vector against itself, a
\* vector against a matrix, a matrix against itself, a matrix against a
\* matrix
FourShapes(right, left) ==
    \/ right.ndim = 1 /\ left = right
    \/ right.ndim = 1 /\ left # None /\ left.ndim = 2
    \/ right.ndim = 2 /\ left = right
    \/ right.ndim = 2 /\ left # None /\ left.ndim = 2

\* C13 (as stated): solve accepts exactly the four shapes; every other
\* combination, among them a vector against a distinct vector, raises the
\* invalid-argument ValueError.
C13_SolveAcceptsFourShapes ==
    Solved => (nret.out.kind = "ValueError" <=> ~FourShapes(nret.right, nret.left))

\* C13 (amended): solve accepts the four shapes and any two arrays of the
\* same number of dimensions, at most 2: a vector against a distinct vector
\* and a 0-dimensional array against a 0-dimensional array return a value.
\* Every other combination raises ValueError: a missing left_array, a matrix
\* against a vector, and every array of more than 2 dimensions.
C13_SolveAcceptsEqualDimensions ==
    Solved =>
        LET right == nret.right
            left  == nret.left
            accepted == \/ FourShapes(right, left)
                        \/ left # None /\ left.ndim = right.ndim /\ right.ndim \in {0, 1}
        IN  /\ nret.out.kind = "ValueError" <=> ~accepted
            /\ (accepted /\ HasSolve(engines[nret.e].Nmat)) => nret.out.kind \in {"value", "pair"}
            /\ left = None => nret.out.kind = "ValueError"
            /\ (right.ndim = 2 /\ left # None /\ left.ndim = 1) => nret.out.kind = "ValueError"
            /\ right.ndim > 2 => nret.out.kind = "ValueError"

\* C13 witness: a vector solved against a distinct vector returns a value
C13_Witness ==
    /\ Solved /\ nret.right.ndim = 1 /\ nret.left # None /\ nret.left.ndim = 1
    /\ nret.left # nret.right /\ nret.out.kind = "value"

\* the last call was a call of one of the memoized helpers
HelperCalled ==
    system = "MarginalizingNmat" /\ nret # None /\ nret.op \in {"MNr", "MNF", "MNMMNF"}

\* what the helper computes from the noise operator and basis of engine E
HelperValue(E, name, arg) ==
    LET MN == NSolve(E.Nmat, arg, MmatObj(E.Mmat))
    IN  IF name = "MNMMNF" THEN CfSolve(E, MN) ELSE MN

\* C20: a memoized helper returns its stored result exactly when its
\* argument is the very object of its preceding call on the same engine; a
\* distinct object, equal in value or not, makes it recompute, and the
\* result always is the one computed from the noise operator of the engine
\* the helper is called on.
C20_MemoByIdentity ==
    HelperCalled =>
        LET E == engines[nret.e]
            same == nret.before # None /\ nret.before.arg.id = nret.arg.id
        IN  /\ nret.recomputed <=> ~same
            /\ ~nret.recomputed => nret.out = Value(nret.before.val)
            /\ nret.out = Value(HelperValue(E, nret.op, nret.arg))
            /\ E[nret.op] = [arg |-> nret.arg, val |-> nret.out.value]

\* C20 witness: the engine made by an addition is called with the object
\* that the first engine has memoized, after a call with a distinct object
\* equal in value, and recomputes
C20_Witness ==
    /\ HelperCalled /\ nret.e = 2 /\ engines[2].parent = 1
    /\ engines[1][nret.op] # None /\ engines[1][nret.op].arg = nret.arg
    /\ nret.before # None /\ nret.before.arg # nret.arg
    /\ ValueOf(nret.before.arg) = ValueOf(nret.arg)
    /\ nret.recomputed
    /\ engines[1][nret.op].val # nret.out.value

\* C21: solve returns a (value, log-determinant) pair exactly when logdet
\* is true and the call is the vector-against-itself case; the
\* log-determinant is then the noise operator's log-determinant plus the
\* Cholesky factor's plus k * log(1e40), k the number of basis columns.  In
\* the vector-against-matrix, matrix-against-itself and
\* matrix-against-matrix cases the flag is ignored and a bare value is
\* returned.
C21_PairOnlyForVectorItselfWithLogdet ==
    Solved =>
        LET E == engines[nret.e]
            right == nret.right
            left  == nret.left
            itself == right.ndim = 1 /\ left = right
        IN  /\ nret.out.kind = "pair" => (nret.logdet /\ itself)
            /\ (nret.logdet /\ itself /\ HasSolve(E.Nmat)) =>
                  /\ nret.out.kind = "pair"
                  /\ nret.out.logdet.logdet_N = [f |-> "logdet", of |-> E.Nmat]
                  /\ nret.out.logdet.cf = [f |-> "logdet", of |-> Cholesky(E)]
                  /\ nret.out.logdet.Mprior = [f |-> "k * log(1e40)", k |-> E.Mmat]
            /\ (~itself /\ FourShapes(right, left) /\ HasSolve(E.Nmat)) =>
                  nret.out.kind = "value"
            /\ (~nret.logdet /\ itself /\ HasSolve(E.Nmat)) => nret.out.kind = "value"

\* C21 witness: an engine over a basis of two columns returned the pair for
\* a vector against itself with logdet set
C21_Witness ==
    /\ Solved /\ nret.logdet /\ nret.right.ndim = 1 /\ nret.left = nret.right
    /\ engines[nret.e].Mmat = 2
    /\ nret.out.kind = "pair" /\ nret.out.logdet.Mprior.k = 2

----------------------------------------------------------------------------
(* The class factories FFTBasisGP, FourierBasisCommonGP and                *)
(* FFTBasisCommonGP: the checks a call makes before it returns a class.    *)

MaxKnots  == 5   \* nknots is None or 2..MaxKnots
MaxCutoff == 2   \* cutoff is None or 1..MaxCutoff

Factories == {"FFTBasisGP", "FourierBasisCommonGP", "FFTBasisCommonGP"}

\* the arguments of a call; -1 (NotGiven) is None
FactoryCalls ==
    {a \in [factory : Factories, coefficients : BOOLEAN,
            nknots : {NotGiven} \cup (2..MaxKnots), components : 1..MaxComponents,
            Tspan : {NotGiven, GivenTspan}, start_time : {NotGiven, GivenStart},
            cutoff : {NotGiven} \cup (1..MaxCutoff), cutbins : 0..1, oversample : 1..MaxOversample] :
        a.factory = "FourierBasisCommonGP" =>
            /\ a.nknots = NotGiven /\ a.start_time = NotGiven /\ a.cutoff = NotGiven
            /\ a.cutbins = 1 /\ a.oversample = 1}

ErrTspan        == [kind |-> "ValueError", msg |-> "requires that you specify Tspan explicitly"]
ErrOddKnots     == [kind |-> "ValueError", msg |-> "Knots needs to be an odd number"]
ErrNotSupported == [kind |-> "NotImplementedError", msg |-> "Coefficients not supported"]

\* int(np.ceil(oversample / cutoff))
CeilDiv(n, d) == (n + d - 1) \div d

\* the class a factory returns, with the values its methods close over
ClassOf(a) ==
    [kind |-> "class", factory |-> a.factory, coefficients |-> a.coefficients,
     nknots |-> IF a.factory = "FourierBasisCommonGP" THEN NotGiven
                ELSE IF a.nknots = NotGiven THEN 2 * a.components + 1 ELSE a.nknots,
     cutbins |-> IF a.cutoff # NotGiven THEN CeilDiv(a.oversample, a.cutoff) ELSE a.cutbins,
     Tspan |-> a.Tspan, start_time |-> a.start_time]

\* the body of the class statement of the FFT variants (lines 298-299, 652-653)
ClassBodyUnchecked(a) == ClassOf(a)

ClassBody(a) == IF a.coefficients THEN ErrNotSupported ELSE ClassOf(a)

\* FFTBasisGP (lines 250-309)
FFTBasisGP_factory(a) ==
    IF a.nknots # NotGiven /\ a.nknots % 2 = 0 THEN ErrOddKnots
    ELSE ClassBody(a)

\* FourierBasisCommonGP (lines 530-562)
FourierBasisCommonGP_factory(a) ==
    IF a.coefficients /\ a.Tspan = NotGiven THEN ErrTspan
    ELSE ClassOf(a)

\* FFTBasisCommonGP (lines 581-677)
FFTBasisCommonGP_factory(a) ==
    IF a.coefficients /\ (a.Tspan = NotGiven \/ a.start_time = NotGiven) THEN ErrTspan
    ELSE IF a.nknots # NotGiven /\ a.nknots % 2 = 0 THEN ErrOddKnots
    ELSE ClassBody(a)

Factory(a) ==
    IF a.factory = "FFTBasisGP" THEN FFTBasisGP_factory(a)
    ELSE IF a.factory = "FourierBasisCommonGP" THEN FourierBasisCommonGP_factory(a)
    ELSE FFTBasisCommonGP_factory(a)

OthersOfFactory == UNCHANGED <<system, basisVars, fftVars, wbVars, commonVars, nmatVars>>

InitOthersOfFactory ==
    /\ cfg = None /\ keys = <<>> /\ labels = EmptyMap /\ basis = <<>> /\ phi = <<>>
    /\ slices = EmptyMap /\ basisCache = EmptyCache /\ priorCache = EmptyCache
    /\ delayCache = EmptyCache /\ coefficients = EmptyMap /\ ret = NoCall /\ prev = None
    /\ fft = None /\ gpCall = None /\ cmCall = None /\ gpPhi = None
    /\ fftCache = None /\ fftRet = None
    /\ wb = None /\ wbObj = None /\ wbRet = None
    /\ ccfg = None /\ Tmin = <<>> /\ Tmax = <<>> /\ inst = EmptyMap
    /\ cret = None /\ late = FALSE /\ constructed = <<>>
    /\ engines = <<>> /\ nret = None

InitFactory ==
    /\ system = "factory"
    /\ fcall \in FactoryCalls
    /\ fout = None
    /\ InitOthersOfFactory

\* the call of the factory
Factory_call ==
    /\ system = "factory"
    /\ fout = None
    /\ fout' = Factory(fcall)
    /\ UNCHANGED fcall
    /\ OthersOfFactory

NextFactory == Factory_call

SpecFactory == InitFactory /\ [][NextFactory]_vars

\* C15: a call of the FFTBasisGP or FFTBasisCommonGP factory with
\* coefficients requested returns no class: FFTBasisGP raises the odd-knot
\* error when nknots is even and the not-supported error otherwise;
\* FFTBasisCommonGP raises the missing Tspan/start_time error when either is
\* absent, otherwise the odd-knot error when nknots is even and the
\* not-supported error otherwise.  No common-GP class with coefficients
\* exists for the FFT variant.
C15_FFTCoefficientsRejected ==
    /\ (system = "factory" /\ fout # None /\ fcall.coefficients
        /\ fcall.factory \in {"FFTBasisGP", "FFTBasisCommonGP"}) =>
          LET even == fcall.nknots # NotGiven /\ fcall.nknots % 2 = 0
              missing == fcall.Tspan = NotGiven \/ fcall.start_time = NotGiven
          IN  /\ fout.kind # "class"
              /\ fcall.factory = "FFTBasisGP" =>
                    fout = IF even THEN ErrOddKnots ELSE ErrNotSupported
              /\ fcall.factory = "FFTBasisCommonGP" =>
                    fout = IF missing THEN ErrTspan
                           ELSE IF even THEN ErrOddKnots ELSE ErrNotSupported
    /\ (system = "factory" /\ fout # None /\ fout.kind = "class") =>
          (fout.factory \in {"FFTBasisGP", "FFTBasisCommonGP"} => ~fout.coefficients)

\* C15 witness: FFTBasisCommonGP called with coefficients, Tspan, start_time
\* and an odd number of knots raises the not-supported error
C15_Witness ==
    /\ system = "factory" /\ fout # None
    /\ fcall.factory = "FFTBasisCommonGP" /\ fcall.coefficients
    /\ fcall.Tspan # NotGiven /\ fcall.start_time # NotGiven /\ fcall.nknots = 3
    /\ fout = ErrNotSupported

====
